---- MODULE Spec2Model ----
(***************************************************************************)
(* A model of @propcheck/core: the splittable PRNG (prng.ts), the lazy     *)
(* shrink tree (Tree.ts), the shrink sequences (shrink.ts), the generator  *)
(* combinators (Gen.ts) and the runner (runner.ts: given / withOptions /   *)
(* check / shrink).                                                        *)
(*                                                                         *)
(* Numbers.  A 32-bit word is a pair <<hi, lo>> of 16-bit halves, so that  *)
(* every intermediate of the PRNG stays inside the model checker's         *)
(* integers while the words keep their 32-bit width.  A JavaScript number  *)
(* that an option may hold is a record [k, t2]: k = "fin" stands for the   *)
(* number t2 / 2 (so halves are representable), k = "nan" for NaN and      *)
(* k = "inf" for +Infinity.  The size of checkProperty and its step are    *)
(* binary64 numbers with their 53-bit significand, rounded as IEEE 754     *)
(* rounds.                                                                 *)
(*                                                                         *)
(* Specifications.                                                         *)
(*   Spec            given(...), one withOptions, check calls, and runners *)
(*                   made from the seed, iteration and size of a Failure   *)
(*   SpecRamp        check calls of a property that passes, on runners of  *)
(*                   up to MaxRampIterations iterations: the sizes         *)
(*   SpecOpts        withOptions alone, chained, with overrides of every   *)
(*                   kind                                                  *)
(*   SpecShrink      shrink called on an array of trees, step by step, and *)
(*                   called once more on the same array                    *)
(*   FairSpecShrink  SpecShrink, every step of shrink taken when it can be *)
(*   SpecGen         one generator made by a combinator of Gen and run     *)
(*                   once; suchThat's run one search at a time             *)
(*   SpecSuchThatMaybe  suchThatMaybe generators run at small sizes        *)
(*   SpecTree        one tree iterated depth-first or breadth-first, one   *)
(*                   next() at a time                                      *)
(*   FairSpecTree    SpecTree, next() called as long as the iterator is    *)
(*                   not done                                              *)
(*   SpecExpand      expand called on a tree, then the children of the     *)
(*                   result taken one at a time                            *)
(*   SpecPure        one call of towardsIntegral, nextInt or split         *)
(***************************************************************************)
EXTENDS Integers, Naturals, Sequences, FiniteSets, TLC

(***************************************************************************)
(* 32-bit words: <<hi, lo>>, the upper and the lower 16 bits               *)
(***************************************************************************)
\* 2^n for n in 0 .. 16
Pow2(n) ==
    << 1, 2, 4, 8, 16, 32, 64, 128, 256, 512, 1024, 2048, 4096, 8192,
       16384, 32768, 65536 >>[n + 1]

H16 == Pow2(16)

\* a function over 1 .. n as the tuple of its values
AsTuple(f) == f \o << >>

RECURSIVE XorBits(_, _, _)
\* bitwise exclusive or of the n low bits of a and b
XorBits(a, b, n) ==
    IF n = 0 THEN 0
    ELSE ((a + b) % 2) + 2 * XorBits(a \div 2, b \div 2, n - 1)

\* XorByte[a + 1][b + 1] = a ^ b for the bytes a and b
XorByte ==
    AsTuple([a \in 1 .. 256 |-> AsTuple([b \in 1 .. 256 |-> XorBits(a - 1, b - 1, 8)])])

Xor16(a, b) ==
    XorByte[(a \div 256) + 1][(b \div 256) + 1] * 256
        + XorByte[(a % 256) + 1][(b % 256) + 1]

\* JS `a ^ b`
Xor32(a, b) == << Xor16(a[1], b[1]), Xor16(a[2], b[2]) >>

\* JS `a << k`, 0 < k < 16
Shl32(a, k) ==
    << (a[1] * Pow2(k) + (a[2] \div Pow2(16 - k))) % H16, (a[2] * Pow2(k)) % H16 >>

\* JS `a >>> k`, 0 < k < 32
Shr32(a, k) ==
    IF k >= 16 THEN << 0, a[1] \div Pow2(k - 16) >>
    ELSE << a[1] \div Pow2(k), ((a[1] % Pow2(k)) * Pow2(16 - k)) + (a[2] \div Pow2(k)) >>

\* JS `a | b` for words with no common set bit
Or32(a, b) == << a[1] + b[1], a[2] + b[2] >>

\* JS `(a << k) | (a >>> (32 - k))`, 0 < k < 16
Rotl32(a, k) == Or32(Shl32(a, k), Shr32(a, 32 - k))

\* (a + b) mod 2^32
Add32(a, b) ==
    << (a[1] + b[1] + ((a[2] + b[2]) \div H16)) % H16, (a[2] + b[2]) % H16 >>

\* (a * b) mod 2^32 for a factor b below 2^25: Math.imul(a, b), and what
\* the JS code computes once a product is cut to 32 bits by `<<` or `>>> 0`
Imul(a, b) ==
    LET bh == b \div H16
        bl == b % H16
        lo == a[2] * bl
    IN  << (a[1] * bl + a[2] * bh + (lo \div H16)) % H16, lo % H16 >>

Zero32 == << 0, 0 >>

(***************************************************************************)
(* prng.ts                                                                 *)
(***************************************************************************)
\* SeedState literal [a, b, c, d] with every component below 2^16
SeedOf(a, b, c, d) == << << 0, a >>, << 0, b >>, << 0, c >>, << 0, d >> >>

\* xoshiro128ss(state)[0]: the next state
xoshiro128ssState(state) ==
    LET s0 == state[1]
        s1 == state[2]
        s2 == state[3]
        s3 == state[4]
        t  == Shl32(s0, 9)
        s2a == Xor32(s2, s0)
        s3a == Xor32(s3, s1)
        s1a == Xor32(s1, s2a)
        s0a == Xor32(s0, s3a)
    IN  << s0a, s1a, t, Rotl32(s3a, 11) >>

\* xoshiro128ss(state)[1] * 4294967295: the 32-bit scramble `r >>> 0`
xoshiro128ssOut(state) == Imul(Rotl32(Imul(state[1], 5), 7), 9)

step(state) == xoshiro128ssState(state)

j0 == << 34660, 11 >>       \* 0x8764000b
j1 == << 62786, 53971 >>    \* 0xf542d2d3
j2 == << 28576, 13763 >>    \* 0x6fa035c3
j3 == << 30706, 56155 >>    \* 0x77f2db5b

\* `j & (1 << b)` is not zero
BitSet(j, b) ==
    IF b < 16 THEN (j[2] \div Pow2(b)) % 2 = 1
    ELSE (j[1] \div Pow2(b - 16)) % 2 = 1

Xor128(a, b) ==
    << Xor32(a[1], b[1]), Xor32(a[2], b[2]), Xor32(a[3], b[3]), Xor32(a[4], b[4]) >>

RECURSIVE jumpLoop(_, _, _)
\* one `for (let b = 0; b < 32; ++b)` loop of jump, from bit b on;
\* acc is <<accumulated s0..s3, running state>> (the test on Len(acc) has the
\* pair computed before the loop goes on to the next bit)
jumpLoop(j, b, acc) ==
    IF b = 32 \/ Len(acc) # 2 THEN acc
    ELSE IF BitSet(j, b)
         THEN jumpLoop(j, b + 1, << Xor128(acc[1], acc[2]), xoshiro128ssState(acc[2]) >>)
         ELSE jumpLoop(j, b + 1, acc)

jump(state) ==
    LET a0 == << << Zero32, Zero32, Zero32, Zero32 >>, state >>
        a1 == jumpLoop(j0, 0, a0)
        a2 == jumpLoop(j1, 0, a1)
        a3 == jumpLoop(j2, 0, a2)
        a4 == jumpLoop(j3, 0, a3)
    IN  a4[1]

split(state) == << step(state), jump(state) >>

\* nextInt(state, {minBound: 0, maxBound: hi}):
\*   min(floor(0 + r / (1 / (hi + 1))), hi), r = scramble / 4294967295.
\* The quotient floor(u * d / (2^32 - 1)) is computed exactly on the halves:
\* u * d = q * 2^32 + rem = q * (2^32 - 1) + (q + rem).  The code divides
\* in floating point; for hi up to 10000 its floor can differ from the exact
\* one only when u * d is a multiple of 2^32 - 1.
\* nextInt(state, {minBound: 0, maxBound: hi}) as it would be without
\* Math.min(..., hi)
nextIntUnclamped(state, hi) ==
    LET u  == xoshiro128ssOut(state)
        d  == hi + 1
        lo2 == u[2] * d
        hi2 == u[1] * d + (lo2 \div H16)
        q  == hi2 \div H16
        remHi == hi2 % H16
        remLo == lo2 % H16
    IN  IF remHi = H16 - 1 /\ remLo >= H16 - 1 - q THEN q + 1 ELSE q

nextIntUpTo(state, hi) ==
    LET u  == xoshiro128ssOut(state)
        d  == hi + 1
        lo2 == u[2] * d
        hi2 == u[1] * d + (lo2 \div H16)
        q  == hi2 \div H16
        remHi == hi2 % H16
        remLo == lo2 % H16
        fl == IF remHi = H16 - 1 /\ remLo >= H16 - 1 - q THEN q + 1 ELSE q
    IN  IF fl < hi THEN fl ELSE hi

\* nextInt(state, {minBound: lo, maxBound: hi}), lo <= hi integers:
\*   min(floor(lo + r / (1 / (hi + 1 - lo))), hi)
\* lo is an integer, so the floor is lo + floor(r / (1 / (hi + 1 - lo)))
nextInt(state, lo, hi) == lo + nextIntUpTo(state, hi - lo)

\* `h + (h << k)` cut to 32 bits
AddShl(h, k) == Add32(h, Shl32(h, k))

\* `h ^ (h >>> k)`
XorShr(h, k) == Xor32(h, Shr32(h, k))

\* iterateH(h)[0]; iterateH(h)[1] is the same 32 bits (`h >>> 0`)
iterateH(h) == AddShl(XorShr(AddShl(XorShr(AddShl(h, 13), 7), 3), 17), 5)

RECURSIVE keyHash(_, _, _)
\* the loop of makeSeedState over the char codes of key, from index i on
\* (the test on Len(h0) has the hash computed before the loop goes on)
keyHash(key, i, h0) ==
    IF i > Len(key) \/ Len(h0) # 2 THEN h0
    ELSE keyHash(key, i + 1, Imul(Xor32(h0, << 0, key[i] >>), 16777619))

\* makeSeedState(key), key a tuple of char codes; 2166136261 = 0x811c9dc5
makeSeedState(key) ==
    LET h0 == keyHash(key, 1, << 33052, 40389 >>)
        h1 == iterateH(h0)
        h2 == iterateH(h1)
        h3 == iterateH(h2)
        h4 == iterateH(h3)
    IN  << h1, h2, h3, h4 >>

(***************************************************************************)
(* shrink.ts                                                               *)
(***************************************************************************)
\* Math.trunc(x / 2)
TruncHalf(x) == IF x >= 0 THEN x \div 2 ELSE -((-x) \div 2)

RECURSIVE halves(_)
\* halves(15) = <<15, 7, 3, 1>>
halves(x) == IF x = 0 THEN << >> ELSE << x >> \o halves(TruncHalf(x))

\* consNub(x, xs) as it would be with x in front of xs in every case
consAlways(x, xs) == << x >> \o xs

\* consNub(x, xs): x in front of xs unless xs already starts with x
consNub(x, xs) ==
    IF xs = << >> THEN << x >>
    ELSE IF x # xs[1] THEN << x >> \o xs
    ELSE xs

\* the shrinks as they would be with the destination alone
towardsDestinationOnly(destination, x) ==
    IF destination = x THEN << >> ELSE << destination >>

towardsIntegral(destination, x) ==
    IF destination = x THEN << >>
    ELSE LET diff == TruncHalf(x) - TruncHalf(destination)
             hs   == halves(diff)
         IN  consNub(destination, [k \in 1 .. Len(hs) |-> x - hs[k]])

(***************************************************************************)
(* Functions handed to the library.  A function is a description, applied  *)
(* by ShrinkFn (x => Iterable), Pred (x => boolean) and, further down,     *)
(* Bind (x => Gen).  A string is the sequence of its characters.           *)
(*   "towards"  x => towardsIntegral(c, x)                                 *)
(*   "list"     _ => c                                                     *)
(*   "single"   _ => [c]                                                   *)
(*   "upTo"     n => (n > c ? [] : [n + 1, n + 2])                         *)
(*   "str"      s => ["str * '" + s + "'"]                                 *)
(*   "none"     _ => []                                                    *)
(***************************************************************************)
MkFn(s, c) == [s |-> s, c |-> c]

ShrinkFn(f, x) ==
    CASE f.s = "towards" -> towardsIntegral(f.c, x)
      [] f.s = "list"    -> f.c
      [] f.s = "single"  -> << f.c >>
      [] f.s = "upTo"    -> IF x > f.c THEN << >> ELSE << x + 1, x + 2 >>
      [] f.s = "str"     -> << << "s", "t", "r", " ", "*", " ", "'" >> \o x \o << "'" >> >>
      [] f.s = "none"    -> << >>

\* "gt": x => x > c, "ge": x => x >= c, "eq": x => x === c,
\* "even": x => x % 2 === 0, "never": _ => false
Pred(p, x) ==
    CASE p.s = "gt"    -> x > p.c
      [] p.s = "ge"    -> x >= p.c
      [] p.s = "eq"    -> x = p.c
      [] p.s = "even"  -> x % 2 = 0
      [] p.s = "never" -> FALSE

(***************************************************************************)
(* Tree.ts.  A tree is its root value and a description of its lazy        *)
(* children sequence:                                                      *)
(*   "none"           Seq.empty()                                          *)
(*   "from"           the explicit trees in sub (Tree.from)                *)
(*   "unfoldTowards"  unfoldForest(x => towardsIntegral(c, x), value)      *)
(*   "leafTowards"    one leaf per element of towardsIntegral(c, value)    *)
(*   "repeatLeaf"     one leaf c after the other, without end              *)
(*   "enumLeaves"     Seq.enumFrom(c).map(Tree.singleton): the leaves c,   *)
(*                    c + 1, ... without end                               *)
(*                    (Seq.repeat(c) mapped to leaves)                     *)
(*   "unfoldSame"     unfoldForest(x => [x], value): infinitely deep       *)
(*   "unfoldRepeat"   unfoldForest(x => Seq.repeat(x), value): infinitely  *)
(*                    wide and deep                                        *)
(*   "unfold"         unfoldForest(c, value), c a function                 *)
(*   "leaves"         new Seq(c(value)).map(x => new Tree(x, Seq.empty())) *)
(*   "append"         sub[1].children.concat(sub[2].children)              *)
(*   "concatMap"      sub[1].children.map(t => t.concatMap(c))             *)
(*   "expand"         sub[1].children.map(t => t.expand(c))                *)
(* A child is computed when it is asked for, as the lazy sequences of the  *)
(* code compute it.                                                        *)
(***************************************************************************)
MkTree(value, kids, c, sub) == [value |-> value, kids |-> kids, c |-> c, sub |-> sub]

singleton(x) == MkTree(x, "none", 0, << >>)

prune(t) == singleton(t.value)

\* Tree.unfold(unf, x)
unfold(unf, x) == MkTree(x, "unfold", unf, << >>)

RECURSIVE EndlessChildren(_)
RECURSIVE NumChildren(_)
RECURSIVE HasChild(_, _)
RECURSIVE Child(_, _)
RECURSIVE GenRun(_, _, _, _)
RECURSIVE Bind(_, _)

\* the children sequence of t never ends
EndlessChildren(t) ==
    CASE t.kids \in {"repeatLeaf", "enumLeaves", "unfoldRepeat"} -> TRUE
      [] t.kids = "append" -> EndlessChildren(t.sub[1]) \/ EndlessChildren(t.sub[2])
      [] t.kids \in {"concatMap", "expand"} -> EndlessChildren(t.sub[1])
      [] OTHER -> FALSE

\* the length of the children sequence of t, when it ends
NumChildren(t) ==
    CASE t.kids = "none"          -> 0
      [] t.kids = "from"          -> Len(t.sub)
      [] t.kids = "unfoldTowards" -> Len(towardsIntegral(t.c, t.value))
      [] t.kids = "leafTowards"   -> Len(towardsIntegral(t.c, t.value))
      [] t.kids = "unfoldSame"    -> 1
      [] t.kids \in {"unfold", "leaves"} -> Len(ShrinkFn(t.c, t.value))
      [] t.kids = "append"        -> NumChildren(t.sub[1]) + NumChildren(t.sub[2])
      [] t.kids \in {"concatMap", "expand"} -> NumChildren(t.sub[1])

\* the children sequence of t has a k-th element (k = 1 is the first)
HasChild(t, k) ==
    CASE t.kids = "none"          -> FALSE
      [] t.kids = "from"          -> k <= Len(t.sub)
      [] t.kids = "unfoldTowards" -> k <= Len(towardsIntegral(t.c, t.value))
      [] t.kids = "leafTowards"   -> k <= Len(towardsIntegral(t.c, t.value))
      [] t.kids = "repeatLeaf"    -> TRUE
      [] t.kids = "enumLeaves"    -> TRUE
      [] t.kids = "unfoldSame"    -> k <= 1
      [] t.kids = "unfoldRepeat"  -> TRUE
      [] t.kids \in {"unfold", "leaves"} -> k <= Len(ShrinkFn(t.c, t.value))
      [] t.kids = "append"        ->
            \/ HasChild(t.sub[1], k)
            \/ /\ ~EndlessChildren(t.sub[1])
               /\ HasChild(t.sub[2], k - NumChildren(t.sub[1]))
      [] t.kids \in {"concatMap", "expand"} -> HasChild(t.sub[1], k)

\* x => f(x).run(sz, seed, i), the function andThen hands to concatMap:
\* f a function to generators, applied by Bind
MkBind(f, sz, seed, i) == [f |-> f, sz |-> sz, seed |-> seed, i |-> i]

\* this.children.concat(that.children) under the root value x
Append2(x, this, that) == MkTree(x, "append", 0, << this, that >>)

\* t.concatMap(f) as it would be with k.children before the children of t
concatMapOwnFirst(t, f) ==
    LET k == GenRun(Bind(f.f, t.value), f.sz, f.seed, f.i)
    IN  Append2(k.value, k, MkTree(k.value, "concatMap", f, << t >>))

\* t.concatMap(f)
concatMap(t, f) ==
    LET k == GenRun(Bind(f.f, t.value), f.sz, f.seed, f.i)
    IN  Append2(k.value, MkTree(k.value, "concatMap", f, << t >>), k)

\* t.expand(unf) as it would be with the existing children left as they are
expandRootOnly(t, unf) ==
    Append2(t.value, t, unfold(unf, t.value))

\* t.expand(unf)
expand(t, unf) ==
    Append2(t.value, MkTree(t.value, "expand", unf, << t >>), unfold(unf, t.value))

\* the k-th element of the children sequence of t
Child(t, k) ==
    CASE t.kids = "from"          -> t.sub[k]
      [] t.kids = "unfoldTowards" ->
            MkTree(towardsIntegral(t.c, t.value)[k], "unfoldTowards", t.c, << >>)
      [] t.kids = "leafTowards"   -> singleton(towardsIntegral(t.c, t.value)[k])
      [] t.kids = "repeatLeaf"    -> singleton(t.c)
      [] t.kids = "enumLeaves"    -> singleton(t.c + k - 1)
      [] t.kids = "unfoldSame"    -> t
      [] t.kids = "unfoldRepeat"  -> t
      [] t.kids = "unfold"        -> unfold(t.c, ShrinkFn(t.c, t.value)[k])
      [] t.kids = "leaves"        -> singleton(ShrinkFn(t.c, t.value)[k])
      [] t.kids = "append"        ->
            IF HasChild(t.sub[1], k) THEN Child(t.sub[1], k)
            ELSE Child(t.sub[2], k - NumChildren(t.sub[1]))
      [] t.kids = "concatMap"     -> concatMap(Child(t.sub[1], k), t.c)
      [] t.kids = "expand"        -> expand(Child(t.sub[1], k), t.c)

\* args.map(t => t.value)
Values(trees) == [k \in 1 .. Len(trees) |-> trees[k].value]

RECURSIVE depthFirst(_)
RECURSIVE depthFirstFrom(_, _)
\* the values depthFirst yields for the children of t from the k-th on
depthFirstFrom(t, k) ==
    IF ~HasChild(t, k) THEN << >>
    ELSE depthFirst(Child(t, k)) \o depthFirstFrom(t, k + 1)

\* [...t]: the values depthFirst(t) yields, t finite
depthFirst(t) == << t.value >> \o depthFirstFrom(t, 1)

\* [...t.children], when the sequence ends
Children(t) == AsTuple([k \in 1 .. NumChildren(t) |-> Child(t, k)])

RECURSIVE breadthFirstLoop(_, _)
\* the loop of breadthFirst: every pass shifts one tree off the queue,
\* yields the values of its children and pushes them
breadthFirstLoop(queue, out) ==
    IF Len(queue) = 0 \/ Len(out) < 0 THEN out
    ELSE LET children == Children(Head(queue))
         IN  breadthFirstLoop(Tail(queue) \o children, out \o Values(children))

\* [...t.breadthFirst()], t finite
breadthFirst(t) == breadthFirstLoop(<< t >>, << t.value >>)


(***************************************************************************)
(* Gen.ts and generators/numbers.ts.  A generator is a description, a      *)
(* record with the field g; GenRun is its run(sz, seed, i).                *)
(*   "nat"           nat = Gen.sized(sz => integral(new Range(0, sz, 0)))  *)
(*   "sized"         Gen.sized(n => Gen.const(n))                          *)
(*   "const"         Gen.const(c)                                          *)
(*   "natRepeat"     nat.pruneShrinkTree().shrink(_ => Seq.repeat(c))      *)
(*   "constTowards"  Gen.const(c).shrink(x => towardsIntegral(0, x))       *)
(*   "sequence"      Gen.sequence(...sub)                                  *)
(*   "resize"        sub[1].resize(c)                                      *)
(*   "andThen"       sub[1].andThen(c)                                     *)
(*   "shrink"        sub[1].shrink(c)                                      *)
(*   "shrinkRecursively"  sub[1].shrinkRecursively(c)                      *)
(*   "tryPred"       tryPred(m, n) of sub[1].suchThatMaybe(c)              *)
(*   "suchThatMaybe" sub[1].suchThatMaybe(c)                               *)
(* A value of type T | undefined is << >> for undefined and << x >> for    *)
(* the value x.                                                            *)
(***************************************************************************)
MkGen(g, c) == [g |-> g, c |-> c]

\* what Gen.sequence() throws
RangeError == [thrown |-> "RangeError"]

GenConst(x) == MkGen("const", x)

\* Gen.sequence(...gens) as it would be with gens[i % gens.length]
GenSequenceCyclic(gens) ==
    IF Len(gens) = 0 THEN RangeError
    ELSE [g |-> "sequenceCyclic", c |-> 0, sub |-> gens]

\* Gen.sequence(...gens)
GenSequence(gens) ==
    IF Len(gens) = 0 THEN RangeError
    ELSE [g |-> "sequence", c |-> 0, sub |-> gens]

\* gen.resize(sz), sz a non-negative integer
GenResize(gen, sz) == [g |-> "resize", c |-> sz, sub |-> << gen >>]

\* gen.andThen(f)
GenAndThen(gen, f) == [g |-> "andThen", c |-> f, sub |-> << gen >>]

\* gen.shrink(f) with f applied to every node
GenShrinkEveryNode(gen, f) == [g |-> "shrinkRecursively", c |-> f, sub |-> << gen >>]

\* gen.shrink(f)
GenShrink(gen, f) == [g |-> "shrink", c |-> f, sub |-> << gen >>]

\* gen.shrinkRecursively(f)
GenShrinkRecursively(gen, f) == [g |-> "shrinkRecursively", c |-> f, sub |-> << gen >>]

\* tryPred(m, n) inside gen.suchThatMaybe(pred)
tryPred(gen, pred, m, n) ==
    [g |-> "tryPred", c |-> pred, sub |-> << gen >>, m |-> m, n |-> n]

\* n => tryPred(n, 2 * n) as it would be with the sizes n .. 2n - 1
tryPredBelowDouble(gen, pred, n) == tryPred(gen, pred, n, 2 * n - 1)

\* n => tryPred(n, 2 * n), the function suchThatMaybe hands to Gen.sized
tryPredToDouble(gen, pred, n) == tryPred(gen, pred, n, 2 * n)

\* gen.suchThatMaybe(pred)
GenSuchThatMaybe(gen, pred) == [g |-> "suchThatMaybe", c |-> pred, sub |-> << gen >>]

\* gen.suchThat(pred)
GenSuchThat(gen, pred) == [g |-> "suchThat", c |-> pred, sub |-> << gen >>]

\* `if (x)` for x a number or undefined
TruthyMaybe(x) == x # << >> /\ x[1] # 0

\* ' '.repeat(n)
Spaces(n) == AsTuple([k \in 1 .. n |-> " "])

(***************************************************************************)
(* Functions from values to generators:                                    *)
(*   "spaces"   x => Gen.const(' '.repeat(x)).shrink(s => ["str * ..."])   *)
(*   "tryPred"  x => pred(x) ? Gen.const(x) : tryPred(m + 1, n)            *)
(*   "constOf"  x => Gen.const(x + c).shrink(y => towardsIntegral(x, y))   *)
(***************************************************************************)
\* the functions as they would be were tryPred's `pred(x) ? ... : ...` to
\* keep x whatever pred says
BindWithoutPred(f, x) ==
    CASE f.s = "spaces"  -> GenShrink(GenConst(Spaces(x)), MkFn("str", 0))
      [] f.s = "tryPred" -> GenConst(<< x >>)
      [] f.s = "constOf" -> GenShrink(GenConst(x + f.c), MkFn("towards", x))

\* f(x), f a function from values to generators
Bind(f, x) ==
    CASE f.s = "spaces"  -> GenShrink(GenConst(Spaces(x)), MkFn("str", 0))
      [] f.s = "tryPred" ->
            IF Pred(f.pred, x) THEN GenConst(<< x >>)
            ELSE tryPred(f.gen, f.pred, f.m + 1, f.n)
      [] f.s = "constOf" -> GenShrink(GenConst(x + f.c), MkFn("towards", x))

GenRun(gen, sz, seed, i) ==
    CASE gen.g = "nat"          -> MkTree(nextIntUpTo(seed, sz), "unfoldTowards", 0, << >>)
      [] gen.g = "sized"        -> singleton(sz)
      [] gen.g = "const"        -> singleton(gen.c)
      [] gen.g = "natRepeat"    -> MkTree(nextIntUpTo(seed, sz), "repeatLeaf", gen.c, << >>)
      [] gen.g = "constTowards" -> MkTree(gen.c, "leafTowards", 0, << >>)
      [] gen.g = "sequence"     ->
            IF i < Len(gen.sub) THEN GenRun(gen.sub[i + 1], sz, seed, i)
            ELSE GenRun(gen.sub[Len(gen.sub)], sz, seed, i)
      [] gen.g = "sequenceCyclic" ->
            GenRun(gen.sub[(i % Len(gen.sub)) + 1], sz, seed, i)
      [] gen.g = "resize"       -> GenRun(gen.sub[1], gen.c, seed, i)
      [] gen.g = "andThen"      ->
            LET sp == split(seed)
            IN  concatMap(GenRun(gen.sub[1], sz, sp[1], i), MkBind(gen.c, sz, sp[2], i))
      [] gen.g = "shrink"       ->
            LET t == GenRun(gen.sub[1], sz, seed, i)
            IN  Append2(t.value, t, MkTree(t.value, "leaves", gen.c, << >>))
      [] gen.g = "shrinkRecursively" ->
            expand(GenRun(gen.sub[1], sz, seed, i), gen.c)
      [] gen.g = "tryPred"      ->
            IF gen.m > gen.n THEN GenRun(GenConst(<< >>), sz, seed, i)
            ELSE GenRun(GenAndThen(GenResize(gen.sub[1], gen.m),
                                   [s |-> "tryPred", gen |-> gen.sub[1],
                                    pred |-> gen.c, m |-> gen.m, n |-> gen.n]),
                        sz, seed, i)
      [] gen.g = "suchThatMaybe" ->
            GenRun(tryPredToDouble(gen.sub[1], gen.c, sz), sz, seed, i)

(***************************************************************************)
(* JavaScript values a property may return or throw: [t, n] with t the     *)
(* type; n is the number, the truth value (1 or 0), the length of the      *)
(* string, or the identity of the object.                                  *)
(***************************************************************************)
Undefined == [t |-> "undefined", n |-> 0]
Null      == [t |-> "null", n |-> 0]
NaNValue  == [t |-> "NaN", n |-> 0]
Bool(b)   == [t |-> "boolean", n |-> IF b THEN 1 ELSE 0]
Number(n) == [t |-> "number", n |-> n]
String(n) == [t |-> "string", n |-> n]
Object(n) == [t |-> "object", n |-> n]

\* `!!v`
Truthy(v) ==
    CASE v.t = "undefined" -> FALSE
      [] v.t = "null"      -> FALSE
      [] v.t = "NaN"       -> FALSE
      [] v.t = "boolean"   -> v.n = 1
      [] v.t = "number"    -> v.n # 0
      [] v.t = "string"    -> v.n > 0
      [] v.t = "object"    -> TRUE

Returns(v) == [thrown |-> FALSE, val |-> v]
Throws(v)  == [thrown |-> TRUE, val |-> v]

(***************************************************************************)
(* Properties under test (deterministic), described by [kind, th, out]:    *)
(*   "const"      ignores its arguments; returns or throws out             *)
(*   "someBelow"  (...nums) => nums.some(n => n < th)     (failAtTen)      *)
(*   "equal"      (a, b) => a === b                       (failingProp)    *)
(*   "first"      (a) => a                                                 *)
(*   "throwFrom"  (a) => { if (a >= th) throw new Error() }                *)
(*   "below"      (a) => a < th                                            *)
(*   "sumBelow"   (a, b) => a + b < th                                     *)
(***************************************************************************)
MkProp(kind, th, out) == [kind |-> kind, th |-> th, out |-> out]

\* prop(...args): what the call returns or throws
Call(p, args) ==
    CASE p.kind = "const"     -> p.out
      [] p.kind = "someBelow" -> Returns(Bool(\E k \in 1 .. Len(args) : args[k] < p.th))
      [] p.kind = "equal"     ->
            Returns(Bool(IF Len(args) >= 2 THEN args[1] = args[2] ELSE Len(args) = 0))
      [] p.kind = "first"     ->
            Returns(IF Len(args) >= 1 THEN Number(args[1]) ELSE Undefined)
      [] p.kind = "throwFrom" ->
            IF Len(args) >= 1 /\ args[1] >= p.th THEN Throws(Object(1))
            ELSE Returns(Undefined)
      [] p.kind = "below"     -> Returns(Bool(Len(args) >= 1 /\ args[1] < p.th))
      [] p.kind = "sumBelow"  ->
            Returns(Bool(Len(args) >= 2 /\ args[1] + args[2] < p.th))

(***************************************************************************)
(* runner.ts: check                                                        *)
(***************************************************************************)
\* check as it would be with `if (!!result)` alone: undefined fails
checkTruthyOnly(p, args) ==
    LET o == Call(p, args)
    IN  IF o.thrown THEN [ok |-> FALSE, exception |-> o.val]
        ELSE IF Truthy(o.val)
             THEN [ok |-> TRUE, exception |-> Undefined]
             ELSE [ok |-> FALSE, exception |-> Undefined]

\* check(prop, ...args): a CheckResult; a missing `exception` reads undefined
check(p, args) ==
    LET o == Call(p, args)
    IN  IF o.thrown THEN [ok |-> FALSE, exception |-> o.val]
        ELSE IF Truthy(o.val) \/ o.val.t = "undefined"
             THEN [ok |-> TRUE, exception |-> Undefined]
             ELSE [ok |-> FALSE, exception |-> Undefined]

(***************************************************************************)
(* runner.ts: options                                                      *)
(***************************************************************************)
Fin(n)       == [k |-> "fin", t2 |-> 2 * n]
HalfAbove(n) == [k |-> "fin", t2 |-> 2 * n + 1]    \* n + 0.5
NaN          == [k |-> "nan", t2 |-> 0]
Infinity     == [k |-> "inf", t2 |-> 0]
Absent       == [k |-> "absent", t2 |-> 0]         \* the key is not given
UndefinedOpt == [k |-> "undefined", t2 |-> 0]      \* the key is given as undefined

IsInteger(x) == x.k = "fin" /\ x.t2 % 2 = 0
IntOf(x)     == x.t2 \div 2

\* JS `a > b` and `a >= b` on numbers
Gt(a, b) ==
    CASE a.k = "fin" /\ b.k = "fin" -> a.t2 > b.t2
      [] a.k = "inf" /\ b.k = "fin" -> TRUE
      [] OTHER -> FALSE
Ge(a, b) ==
    CASE a.k = "fin" /\ b.k = "fin" -> a.t2 >= b.t2
      [] a.k = "inf" /\ b.k \in {"fin", "inf"} -> TRUE
      [] OTHER -> FALSE

SeedKey(key)     == [k |-> "key", v |-> key]
SeedLiteral(st)  == [k |-> "state", v |-> st]
SeedAbsent       == [k |-> "absent", v |-> << >>]

MkOpts(iterations, startIteration, startSize, maxSize, seed) ==
    [iterations |-> iterations, startIteration |-> startIteration,
     startSize |-> startSize, maxSize |-> maxSize, seed |-> seed]

DefaultIterations == 100
DefaultStartSize  == 3
DefaultMaxSize    == 10000

\* "default"
DefaultSeedKey == << 100, 101, 102, 97, 117, 108, 116 >>

defaultOpts ==
    MkOpts(Fin(DefaultIterations), Fin(1), Fin(DefaultStartSize),
           Fin(DefaultMaxSize), SeedKey(DefaultSeedKey))

\* { ...opts, ...optOverride }
Merge(opts, o) ==
    MkOpts(IF o.iterations.k = "absent" THEN opts.iterations ELSE o.iterations,
           IF o.startIteration.k = "absent" THEN opts.startIteration ELSE o.startIteration,
           IF o.startSize.k = "absent" THEN opts.startSize ELSE o.startSize,
           IF o.maxSize.k = "absent" THEN opts.maxSize ELSE o.maxSize,
           IF o.seed.k = "absent" THEN opts.seed ELSE o.seed)

\* makeTestConfig as it would be with `maxSize > startSize` and
\* `startIteration >= 0`
OptsAcceptedOffByOne(opts) ==
    /\ Gt(opts.iterations, Fin(0)) /\ IsInteger(opts.iterations)
    /\ Ge(opts.startIteration, Fin(0)) /\ IsInteger(opts.startIteration)
    /\ Ge(opts.startSize, Fin(0)) /\ IsInteger(opts.startSize)
    /\ Gt(opts.maxSize, opts.startSize) /\ IsInteger(opts.maxSize)

\* the four tests of makeTestConfig: none of them throws
OptsAccepted(opts) ==
    /\ Gt(opts.iterations, Fin(0)) /\ IsInteger(opts.iterations)
    /\ Ge(opts.startIteration, Fin(1)) /\ IsInteger(opts.startIteration)
    /\ Ge(opts.startSize, Fin(0)) /\ IsInteger(opts.startSize)
    /\ Ge(opts.maxSize, opts.startSize) /\ IsInteger(opts.maxSize)

(***************************************************************************)
(* Bounds                                                                  *)
(***************************************************************************)
MaxIterations == 3      \* check runs on runners of at most this many iterations
MaxRunners    == 3      \* Runner objects in one behaviour
MaxCalls      == 2      \* check calls in one behaviour

(***************************************************************************)
(* State                                                                   *)
(***************************************************************************)
VARIABLES
    gens,       \* the generators handed to given(...)
    prop,       \* the property under test
    runners,    \* the options of every Runner made so far; runners[1] = given(...)
    reproduces, \* reproduces[r]: the result whose seed, iteration and size
                \* runner r was configured from (0: none)
    lastCall,   \* the last withOptions call: runner, override, whether it threw
    pc,         \* "idle", or "check" inside checkProperty
    run,        \* the locals of the running checkProperty
    evalLog,    \* the evaluations of the property in the running check call
    results     \* the finished check calls, in order

\* shrink(prop, args, options)
VARIABLES
    args,       \* the array of trees handed to shrink (shrink writes to it)
    shrinkOpts, \* the options handed to shrink
    sh,         \* the locals of shrink
    stack,      \* the running tryShrinkSingle calls, the innermost last
    ret,        \* << the value the innermost finished tryShrinkSingle returned >>
    origArgs,   \* the trees of args when shrink was called
    evals,      \* the number of evaluations of the property since then
    evalsOf,    \* evalsOf[i]: those made while shrinking argument i
    failed,     \* the tuples the property was evaluated on and failed for
    cut,        \* a budget test ended a loop that had a candidate left
    returned    \* what the calls of shrink on this array returned, in order

\* generators and trees on their own
VARIABLES
    subject,    \* the combinator or function under study and what it is
                \* applied to
    made,       \* << the generator or value it returned, or what it threw >>
    genCall,    \* the sz, seed and i of the last call of run on that generator
    genTree,    \* << the tree that call returned >>
    search,     \* the running or finished run of a suchThat generator
    walk,       \* the running or finished iteration over a tree
    applied     \* the values the unfolding function was applied to, in order

runnerVars == << gens, runners, reproduces, lastCall, run, evalLog, results >>
shrinkVars == << args, shrinkOpts, sh, stack, ret, origArgs, evals, evalsOf, failed, cut,
                returned >>
genVars == << subject, made, genCall, genTree, search, walk, applied >>
vars == << prop, pc, runnerVars, shrinkVars, genVars >>

NoCall == [op |-> "none", on |-> 0, o |-> << >>, threw |-> FALSE]
NoRun  == << >>

(***************************************************************************)
(* runner.ts: given, withOptions                                           *)
(***************************************************************************)
\* runner r .withOptions(o): makeTestConfig(gens, { ...opts, ...o })
WithOptions(r, o) ==
    /\ pc = "idle"
    /\ r \in 1 .. Len(runners)
    /\ Len(runners) < MaxRunners
    /\ LET merged == Merge(runners[r], o)
       IN  IF OptsAccepted(merged)
           THEN /\ runners' = Append(runners, merged)
                /\ reproduces' = Append(reproduces, 0)
                /\ lastCall' = [op |-> "withOptions", on |-> r, o |-> o, threw |-> FALSE]
           ELSE /\ lastCall' = [op |-> "withOptions", on |-> r, o |-> o, threw |-> TRUE]
                /\ UNCHANGED << runners, reproduces >>
    /\ UNCHANGED << gens, prop, pc, run, evalLog, results >>
    /\ UNCHANGED << shrinkVars, genVars >>

\* the options a failure names for repeating it: its seed, iteration and size
FailureOptions(f) ==
    MkOpts(Absent, Fin(f.iteration), Fin(f.size), Absent, SeedLiteral(f.seed))

\* runner r of the failed call k .withOptions(the failure's seed, iteration, size)
WithFailureOptions(k) ==
    /\ pc = "idle"
    /\ k \in 1 .. Len(results)
    /\ ~results[k].result.pass
    /\ Len(runners) < MaxRunners
    /\ LET o == FailureOptions(results[k].result)
           merged == Merge(runners[results[k].runner], o)
       IN  IF OptsAccepted(merged)
           THEN /\ runners' = Append(runners, merged)
                /\ reproduces' = Append(reproduces, k)
                /\ lastCall' = [op |-> "withOptions", on |-> results[k].runner,
                                o |-> o, threw |-> FALSE]
           ELSE /\ lastCall' = [op |-> "withOptions", on |-> results[k].runner,
                                o |-> o, threw |-> TRUE]
                /\ UNCHANGED << runners, reproduces >>
    /\ UNCHANGED << gens, prop, pc, run, evalLog, results >>
    /\ UNCHANGED << shrinkVars, genVars >>

(***************************************************************************)
(* JavaScript numbers in checkProperty.  size and sizeStep are IEEE 754    *)
(* binary64 values, never negative: a number is zero (m = << >>) or        *)
(* m * 2^e with m a significand of Precision bits, the highest first and   *)
(* set.  Every operation rounds to nearest, ties to even.  Sizes stay      *)
(* below 2^31.                                                             *)
(***************************************************************************)
Precision == 53

DblZero == [e |-> 0, m |-> << >>]

Zeros(n) == AsTuple([i \in 1 .. n |-> 0])

RECURSIVE ToBits(_)
\* the binary digits of n >= 0, the highest first, none for 0
ToBits(n) == IF n = 0 THEN << >> ELSE Append(ToBits(n \div 2), n % 2)

RECURSIVE BitsToInt(_, _)
\* the number the first k digits of b spell
BitsToInt(b, k) == IF k = 0 THEN 0 ELSE 2 * BitsToInt(b, k - 1) + b[k]

RECURSIVE IncBits(_, _)
\* b with one added at digit k
IncBits(b, k) ==
    IF k = 0 THEN << 1 >> \o b
    ELSE IF b[k] = 0 THEN [b EXCEPT ![k] = 1]
         ELSE IncBits([b EXCEPT ![k] = 0], k - 1)

\* the number nearest to b * 2^e (+ something below the last digit when
\* sticky), b without leading zero
RoundDbl(b, e, sticky) ==
    LET n == Len(b)
    IN  IF n = 0 THEN DblZero
        ELSE IF n <= Precision
        THEN [e |-> e - (Precision - n), m |-> b \o Zeros(Precision - n)]
        ELSE LET kept  == SubSeq(b, 1, Precision)
                 rest  == sticky \/ \E i \in Precision + 2 .. n : b[i] = 1
                 up    == b[Precision + 1] = 1 /\ (rest \/ kept[Precision] = 1)
                 e2    == e + (n - Precision)
                 inc   == IncBits(kept, Precision)
             IN  IF ~up THEN [e |-> e2, m |-> kept]
                 ELSE IF Len(inc) > Precision
                      THEN [e |-> e2 + 1, m |-> SubSeq(inc, 1, Precision)]
                      ELSE [e |-> e2, m |-> inc]

\* an integer n >= 0 as a number
DblOfInt(n) == RoundDbl(ToBits(n), 0, FALSE)

RECURSIVE DivBits(_, _, _, _)
\* long division by b: acc the digits of the quotient so far, e the weight
\* of the last one, r the remainder
DivBits(r, b, acc, e) ==
    IF r = 0 \/ Len(acc) > Precision THEN RoundDbl(acc, e, r # 0)
    ELSE LET bit == IF 2 * r >= b THEN 1 ELSE 0
         IN  DivBits(2 * r - bit * b, b,
                     IF Len(acc) = 0 /\ bit = 0 THEN acc ELSE Append(acc, bit),
                     e - 1)

\* a / b for integers a >= 0, b >= 1
DivDbl(a, b) == DivBits(a % b, b, ToBits(a \div b), 0)

RECURSIVE AddBits(_, _, _, _, _)
\* the digits of a + b, both of the same length, from digit k down
AddBits(a, b, k, c, acc) ==
    IF k = 0 \/ Len(acc) + k # Len(a)
    THEN IF c = 1 THEN << 1 >> \o acc ELSE acc
    ELSE LET s == a[k] + b[k] + c
         IN  AddBits(a, b, k - 1, s \div 2, << s % 2 >> \o acc)

\* x + y
AddDbl(x, y) ==
    IF x.m = << >> THEN y
    ELSE IF y.m = << >> THEN x
    ELSE LET e  == IF x.e <= y.e THEN x.e ELSE y.e
             a  == x.m \o Zeros(x.e - e)
             b  == y.m \o Zeros(y.e - e)
             n  == IF Len(a) >= Len(b) THEN Len(a) ELSE Len(b)
         IN  RoundDbl(AddBits(Zeros(n - Len(a)) \o a, Zeros(n - Len(b)) \o b,
                              n, 0, << >>), e, FALSE)

\* x <= y
LeDbl(x, y) ==
    IF x.m = << >> THEN TRUE
    ELSE IF y.m = << >> THEN FALSE
    ELSE IF x.e # y.e THEN x.e < y.e
    ELSE \/ x.m = y.m
         \/ \E i \in 1 .. Precision :
                /\ x.m[i] < y.m[i]
                /\ \A j \in 1 .. i - 1 : x.m[j] = y.m[j]

\* Math.min(x, y)
MinDbl(x, y) == IF LeDbl(x, y) THEN x ELSE y

\* Math.floor(x)
FloorDbl(x) ==
    IF x.m = << >> \/ -x.e >= Len(x.m) THEN 0
    ELSE BitsToInt(x.m, Len(x.m) + x.e)

(***************************************************************************)
(* runner.ts: checkProperty                                                *)
(***************************************************************************)
SeedOfOption(seed) == IF seed.k = "key" THEN makeSeedState(seed.v) ELSE seed.v

Max(a, b) == IF a >= b THEN a ELSE b
Min(a, b) == IF a <= b THEN a ELSE b

\* checkProperty as it would be with the generator state kept between calls:
\* every call after the first starts one step further in the sequence
CheckStartSharedState(r) ==
    /\ pc = "idle"
    /\ r \in 1 .. Len(runners)
    /\ Len(results) < MaxCalls
    /\ LET options == runners[r]
           seed    == IF Len(results) = 0 THEN SeedOfOption(options.seed)
                      ELSE step(SeedOfOption(options.seed))
       IN  run' = [runner |-> r,
                   options |-> options,
                   iteration |-> IntOf(options.startIteration),
                   seed |-> seed,
                   size |-> DblOfInt(IntOf(options.startSize)),
                   sizeStep |-> DivDbl(IntOf(options.maxSize) - IntOf(options.startSize),
                                       Max(1, IntOf(options.iterations) - 1)),
                   lastIterationSeed |-> seed]
    /\ pc' = "check"
    /\ evalLog' = << >>
    /\ UNCHANGED << gens, prop, runners, reproduces, lastCall, results >>
    /\ UNCHANGED << shrinkVars, genVars >>

\* the locals of checkProperty before its loop
CheckStart(r) ==
    /\ pc = "idle"
    /\ r \in 1 .. Len(runners)
    /\ Len(results) < MaxCalls
    /\ LET options == runners[r]
           seed    == SeedOfOption(options.seed)
       IN  run' = [runner |-> r,
                   options |-> options,
                   iteration |-> IntOf(options.startIteration),
                   seed |-> seed,
                   size |-> DblOfInt(IntOf(options.startSize)),
                   sizeStep |-> DivDbl(IntOf(options.maxSize) - IntOf(options.startSize),
                                       Max(1, IntOf(options.iterations) - 1)),
                   lastIterationSeed |-> seed]
    /\ pc' = "check"
    /\ evalLog' = << >>
    /\ UNCHANGED << gens, prop, runners, reproduces, lastCall, results >>
    /\ UNCHANGED << shrinkVars, genVars >>

\* Math.floor(size)
FloorSize(r) == FloorDbl(r.size)

RECURSIVE genLoop(_, _, _, _, _)
\* `for (const g of gens)` from the k-th generator on; acc holds args, the
\* running seed and thisIterationSeed (<< >> while undefined)
genLoop(gs, k, sz, i, acc) ==
    IF k > Len(gs) \/ Len(acc.args) # k - 1 THEN acc
    ELSE LET sp == split(acc.seed)
         IN  genLoop(gs, k + 1, sz, i,
                     [args |-> Append(acc.args, GenRun(gs[k], sz, sp[1], i)),
                      seed |-> sp[2],
                      thisIterationSeed |-> << sp[1] >>])

\* the Failure as it would be with the loop counting from zero
FailureCountingFromZero(r, trees, exception) ==
    [pass |-> FALSE,
     args |-> trees,
     seed |-> r.lastIterationSeed,
     iteration |-> r.iteration - 1,
     size |-> FloorSize(r),
     error |-> exception]

\* the Failure checkProperty returns from the iteration whose locals are r
Failure(r, trees, exception) ==
    [pass |-> FALSE,
     args |-> trees,
     seed |-> r.lastIterationSeed,
     iteration |-> r.iteration,
     size |-> FloorSize(r),
     error |-> exception]

\* the size after an iteration as it would be without the test of
\* `iteration === options.iterations - 1`
NextSizeSumOnly(r) ==
    MinDbl(AddDbl(r.size, r.sizeStep), DblOfInt(IntOf(r.options.maxSize)))

\* the size after the iteration whose locals are r
NextSize(r) ==
    IF r.iteration = IntOf(r.options.iterations) - 1
    THEN DblOfInt(IntOf(r.options.maxSize))
    ELSE MinDbl(AddDbl(r.size, r.sizeStep), DblOfInt(IntOf(r.options.maxSize)))

\* one pass through the body of the loop of checkProperty
CheckIteration ==
    /\ pc = "check"
    /\ run.iteration <= IntOf(run.options.iterations)
    /\ \E g \in { genLoop(gens, 1, FloorSize(run), run.iteration - 1,
                        [args |-> << >>, seed |-> run.seed, thisIterationSeed |-> << >>]) } :
       LET testResult == check(prop, Values(g.args))
       IN  /\ evalLog' = Append(evalLog, [iteration |-> run.iteration,
                                          size |-> FloorSize(run),
                                          args |-> Values(g.args)])
           /\ IF ~testResult.ok
              THEN /\ results' = Append(results,
                        [runner |-> run.runner,
                         log |-> evalLog',
                         result |-> Failure(run, g.args, testResult.exception)])
                   /\ pc' = "idle"
                   /\ run' = NoRun
              ELSE /\ run' = [run EXCEPT
                        !.iteration = @ + 1,
                        !.seed = g.seed,
                        !.size = NextSize(run),
                        !.lastIterationSeed =
                            IF g.thisIterationSeed # << >>
                            THEN g.thisIterationSeed[1]
                            ELSE run.lastIterationSeed]
                   /\ UNCHANGED << pc, results >>
    /\ UNCHANGED << gens, prop, runners, reproduces, lastCall >>
    /\ UNCHANGED << shrinkVars, genVars >>

\* checkProperty as it would be with `iteration` in the Pass it returns
CheckPassLoopCounter ==
    /\ pc = "check"
    /\ run.iteration > IntOf(run.options.iterations)
    /\ results' = Append(results,
            [runner |-> run.runner,
             log |-> evalLog,
             result |-> [pass |-> TRUE,
                         args |-> << >>,
                         seed |-> << >>,
                         iteration |-> run.iteration,
                         size |-> FloorSize(run),
                         error |-> Undefined]])
    /\ pc' = "idle"
    /\ run' = NoRun
    /\ UNCHANGED << gens, prop, runners, reproduces, lastCall, evalLog >>
    /\ UNCHANGED << shrinkVars, genVars >>

\* the loop of checkProperty is over: the run passed
CheckPass ==
    /\ pc = "check"
    /\ run.iteration > IntOf(run.options.iterations)
    /\ results' = Append(results,
            [runner |-> run.runner,
             log |-> evalLog,
             result |-> [pass |-> TRUE,
                         args |-> << >>,
                         seed |-> << >>,
                         iteration |-> run.iteration - 1,
                         size |-> FloorSize(run),
                         error |-> Undefined]])
    /\ pc' = "idle"
    /\ run' = NoRun
    /\ UNCHANGED << gens, prop, runners, reproduces, lastCall, evalLog >>
    /\ UNCHANGED << shrinkVars, genVars >>

(***************************************************************************)
(* runner.ts: shrink and tryShrinkSingle.  The recursion of                *)
(* tryShrinkSingle is the stack of its frames                              *)
(*   [argsTree, i, maxShrinks, localShrinks, k]                            *)
(* where k is the position, in argsTree[i].children, of the candidate the  *)
(* loop of the frame is at.  Indices count from 1 (the i of the code is    *)
(* i - 1).  An optional value is << >> (undefined) or << v >>.  Budgets    *)
(* are option numbers: Fin(n), Infinity, or Absent for a missing key.      *)
(***************************************************************************)
DefaultMaxShrinksPerArgument == 100

defaultShrinkOpts ==
    [maxShrinks |-> Infinity,
     maxShrinksPerArgument |-> Fin(DefaultMaxShrinksPerArgument)]

\* `x ?? d`
OrDefault(x, d) == IF x.k = "absent" THEN d ELSE x

\* Math.min(a, b), neither NaN
MinOf(a, b) == IF Ge(a, b) THEN b ELSE a

\* a - n
Minus(a, n) == IF a.k = "fin" THEN [a EXCEPT !.t2 = @ - 2 * n] ELSE a

\* the budget as it would be without the total: maxShrinksPerArgument alone
SingleBudgetPerArgumentOnly(maxShrinksPerArgument, maxShrinks, shrinks) ==
    maxShrinksPerArgument

\* Math.min(maxShrinksPerArgument, maxShrinks - shrinks)
SingleBudget(maxShrinksPerArgument, maxShrinks, shrinks) ==
    MinOf(maxShrinksPerArgument, Minus(maxShrinks, shrinks))

\* the test of the loop as it would be were it to stop one candidate early
BudgetSpentEarly(localShrinks, maxShrinks) == Ge(Fin(localShrinks + 1), maxShrinks)

\* `localShrinks >= maxShrinks`
BudgetSpent(localShrinks, maxShrinks) == Ge(Fin(localShrinks), maxShrinks)

\* the budget of the nested call as it would be handed on unreduced
NestedBudgetNotReduced(maxShrinks, localShrinks) == maxShrinks

\* `maxShrinks - localShrinks`, the budget of the nested call
NestedBudget(maxShrinks, localShrinks) == Minus(maxShrinks, localShrinks)

\* argsTreeCopy of a frame at its candidate k: the pruned trees, the i-th
\* replaced by the candidate
argsTreeCopy(fr) ==
    [j \in 1 .. Len(fr.argsTree) |->
        IF j = fr.i THEN Child(fr.argsTree[fr.i], fr.k) ELSE prune(fr.argsTree[j])]

\* the result after a failed candidate as it would be without localShrinks
SingleResultWithoutLocal(localShrinks, nested, tuple) ==
    [shrinks |-> nested.shrinks,
     smallestFailingArgs |->
        IF nested.smallestFailingArgs # << >> THEN nested.smallestFailingArgs
        ELSE << tuple >>]

\* the result as it would be were the failed candidate kept and what the
\* nested call found dropped
SingleResultKeepCandidate(localShrinks, nested, tuple) ==
    [shrinks |-> localShrinks + nested.shrinks,
     smallestFailingArgs |-> << tuple >>]

\* what tryShrinkSingle returns after a failed candidate: `nested` is the
\* result of the nested call, `tuple` the values of argsTreeCopy
SingleResult(localShrinks, nested, tuple) ==
    [shrinks |-> localShrinks + nested.shrinks,
     smallestFailingArgs |->
        IF nested.smallestFailingArgs # << >> THEN nested.smallestFailingArgs
        ELSE << tuple >>]

\* the array as it would be were args[i] not replaced
ArgsKept(as, i, single, smallest) == as

\* the array as it would be were args[i] replaced by the singleton of its
\* own root
ArgsAfterSingleRoot(as, i, single, smallest) ==
    [as EXCEPT ![i] = singleton(as[i].value)]

\* args after `args[i] = Tree.singleton(smallestFailingArgs[i])`
ArgsAfterSingle(as, i, single, smallest) ==
    IF single.smallestFailingArgs # << >>
    THEN [as EXCEPT ![i] = singleton(smallest[i])]
    ELSE as

MaxRoot  == 8        \* roots of the trees unfolded with towardsIntegral
MaxEvals == 205      \* evaluations in one shrink call
MaxShrinkCalls == 2  \* calls of shrink on one array

\* `{ shrinks, smallestFailingArgs }`
ShrinkResult(shrinks, smallestFailingArgs) ==
    [shrinks |-> shrinks, smallestFailingArgs |-> smallestFailingArgs]

NoRunner ==
    /\ gens = << >>
    /\ runners = << defaultOpts >>
    /\ reproduces = << 0 >>
    /\ lastCall = NoCall
    /\ run = NoRun
    /\ evalLog = << >>
    /\ results = << >>

NoSearch == [pc |-> "none"]
NoWalk   == [pc |-> "none"]

NoGen ==
    /\ subject = [op |-> "none"]
    /\ made = << >>
    /\ genCall = << >>
    /\ genTree = << >>
    /\ search = NoSearch
    /\ walk = NoWalk
    /\ applied = << >>

NoShrink ==
    /\ args = << >>
    /\ shrinkOpts = [maxShrinks |-> Absent, maxShrinksPerArgument |-> Absent]
    /\ sh = << >>
    /\ stack = << >>
    /\ ret = << >>
    /\ origArgs = << >>
    /\ evals = 0
    /\ evalsOf = << >>
    /\ failed = {}
    /\ cut = FALSE
    /\ returned = << >>

\* shrink is called: lines 300-306
ShrinkStart ==
    /\ pc = "idle"
    /\ sh = << >>
    /\ sh' = [maxShrinks |->
                OrDefault(shrinkOpts.maxShrinks, defaultShrinkOpts.maxShrinks),
              maxShrinksPerArgument |->
                OrDefault(shrinkOpts.maxShrinksPerArgument,
                          defaultShrinkOpts.maxShrinksPerArgument),
              shrinks |-> 0,
              smallestFailingArgs |-> Values(args),
              i |-> 1]
    /\ origArgs' = args
    /\ evalsOf' = [j \in 1 .. Len(args) |-> 0]
    /\ pc' = "shrink"
    /\ UNCHANGED << prop, runnerVars, genVars, args, shrinkOpts, stack, ret, evals, failed, cut,
                    returned >>

\* shrink is called once more, with the same property, array and options
ShrinkAgain ==
    /\ pc = "done"
    /\ Len(returned) < MaxShrinkCalls
    /\ sh' = [maxShrinks |->
                OrDefault(shrinkOpts.maxShrinks, defaultShrinkOpts.maxShrinks),
              maxShrinksPerArgument |->
                OrDefault(shrinkOpts.maxShrinksPerArgument,
                          defaultShrinkOpts.maxShrinksPerArgument),
              shrinks |-> 0,
              smallestFailingArgs |-> Values(args),
              i |-> 1]
    /\ origArgs' = args
    /\ evalsOf' = [j \in 1 .. Len(args) |-> 0]
    /\ evals' = 0
    /\ failed' = {}
    /\ cut' = FALSE
    /\ pc' = "shrink"
    /\ UNCHANGED << prop, runnerVars, genVars, args, shrinkOpts, stack, ret, returned >>

\* the test of the loop of shrink, and the call of tryShrinkSingle
ShrinkLoop ==
    /\ pc = "shrink"
    /\ IF sh.i <= Len(args)
       THEN /\ stack' = << [argsTree |-> args,
                            i |-> sh.i,
                            maxShrinks |-> SingleBudget(sh.maxShrinksPerArgument,
                                                        sh.maxShrinks, sh.shrinks),
                            localShrinks |-> 0,
                            k |-> 1] >>
            /\ pc' = "single"
            /\ UNCHANGED returned
       ELSE /\ pc' = "done"
            /\ returned' = Append(returned, ShrinkResult(sh.shrinks, sh.smallestFailingArgs))
            /\ UNCHANGED stack
    /\ UNCHANGED << prop, runnerVars, genVars, args, shrinkOpts, sh, ret, origArgs,
                    evals, evalsOf, failed, cut >>

\* one pass through the loop of the innermost tryShrinkSingle, or its
\* return when the loop is over
SingleStep ==
    /\ pc = "single"
    /\ ret = << >>
    /\ stack # << >>
    /\ LET top  == Len(stack)
           fr   == stack[top]
           more == HasChild(fr.argsTree[fr.i], fr.k)
       IN  IF more /\ ~BudgetSpent(fr.localShrinks, fr.maxShrinks)
           THEN /\ evals < MaxEvals
                /\ \E copy \in { argsTreeCopy(fr) } :
                    LET tuple == Values(copy)
                        testResult == check(prop, tuple)
                    IN  /\ evals' = evals + 1
                        /\ evalsOf' = [evalsOf EXCEPT ![fr.i] = @ + 1]
                        /\ IF testResult.ok
                           THEN /\ stack' = [stack EXCEPT ![top] =
                                        [fr EXCEPT !.localShrinks = @ + 1, !.k = @ + 1]]
                                /\ UNCHANGED failed
                           ELSE /\ stack' = Append(
                                        [stack EXCEPT ![top].localShrinks = @ + 1],
                                        [argsTree |-> copy,
                                         i |-> fr.i,
                                         maxShrinks |-> NestedBudget(fr.maxShrinks,
                                                            fr.localShrinks + 1),
                                         localShrinks |-> 0,
                                         k |-> 1])
                                /\ failed' = failed \cup { tuple }
                /\ UNCHANGED << ret, cut >>
           ELSE /\ ret' = << [shrinks |-> fr.localShrinks,
                              smallestFailingArgs |-> << >>] >>
                /\ stack' = SubSeq(stack, 1, top - 1)
                /\ cut' = (cut \/ more)
                /\ UNCHANGED << evals, evalsOf, failed >>
    /\ UNCHANGED << prop, pc, runnerVars, genVars, args, shrinkOpts, sh, origArgs, returned >>

\* the nested call returned to the frame whose candidate failed
SingleReturn ==
    /\ pc = "single"
    /\ ret # << >>
    /\ stack # << >>
    /\ LET top == Len(stack)
           fr  == stack[top]
       IN  /\ ret' = << SingleResult(fr.localShrinks, ret[1], Values(argsTreeCopy(fr))) >>
           /\ stack' = SubSeq(stack, 1, top - 1)
    /\ UNCHANGED << prop, pc, runnerVars, genVars, args, shrinkOpts, sh, origArgs,
                    evals, evalsOf, failed, cut, returned >>

\* tryShrinkSingle returned to shrink: lines 314-322 and the `++i`
ShrinkAfterSingle ==
    /\ pc = "single"
    /\ ret # << >>
    /\ stack = << >>
    /\ LET singleResult == ret[1]
           shrinks  == sh.shrinks + singleResult.shrinks
           smallest == IF singleResult.smallestFailingArgs # << >>
                       THEN [sh.smallestFailingArgs EXCEPT
                                ![sh.i] = singleResult.smallestFailingArgs[1][sh.i]]
                       ELSE sh.smallestFailingArgs
           stop     == Ge(Fin(shrinks), sh.maxShrinks)
       IN  /\ args' = ArgsAfterSingle(args, sh.i, singleResult, smallest)
           /\ sh' = [sh EXCEPT !.shrinks = shrinks,
                               !.smallestFailingArgs = smallest,
                               !.i = IF stop THEN @ ELSE @ + 1]
           /\ pc' = IF stop THEN "done" ELSE "shrink"
           /\ returned' = IF stop THEN Append(returned, ShrinkResult(shrinks, smallest))
                           ELSE returned
           /\ cut' = (cut \/ (stop /\ sh.i < Len(args)))
    /\ ret' = << >>
    /\ UNCHANGED << prop, runnerVars, genVars, shrinkOpts, stack, origArgs, evals, evalsOf, failed >>

(***************************************************************************)
(* shrink on its own: a property, the trees, the options                   *)
(***************************************************************************)
\* Tree.unfold(x => towardsIntegral(0, x), n)
TowardsTree(n) == MkTree(n, "unfoldTowards", 0, << >>)

\* Tree.from([10, [0, 1, 2, 3, 4, 5, 6, 7, 8, 9]])
simpleShrinks == MkTree(10, "from", 0, [v \in 1 .. 10 |-> singleton(v - 1)])

\* trees whose children, or whose depth, have no end
EndlessTrees ==
    { MkTree(5, "repeatLeaf", 0, << >>),
      MkTree(5, "unfoldSame", 0, << >>),
      MkTree(5, "unfoldRepeat", 0, << >>) }

ShrinkOpts(maxShrinks, maxShrinksPerArgument) ==
    [maxShrinks |-> maxShrinks, maxShrinksPerArgument |-> maxShrinksPerArgument]

SmallBudgets ==
    { ShrinkOpts(Absent, Absent), ShrinkOpts(Fin(0), Absent),
      ShrinkOpts(Fin(1), Absent), ShrinkOpts(Fin(3), Fin(2)),
      ShrinkOpts(Infinity, Fin(2)), ShrinkOpts(Fin(2), Infinity),
      ShrinkOpts(Infinity, Infinity) }

Budgets ==
    SmallBudgets \cup
    { ShrinkOpts(Fin(20), Absent), ShrinkOpts(Absent, Fin(9)),
      ShrinkOpts(Absent, Fin(0)), ShrinkOpts(Absent, Infinity) }

ShrinkScenarios ==
    ({ MkProp("below", t, Returns(Undefined)) : t \in 0 .. MaxRoot + 1 }
        \X ({ << TowardsTree(n) >> : n \in 0 .. MaxRoot } \cup { << simpleShrinks >> })
        \X SmallBudgets)
    \cup
    ({ MkProp("const", 0, o) : o \in { Returns(Bool(TRUE)), Returns(Bool(FALSE)),
                                      Throws(Object(1)) } }
        \X ({ << t >> : t \in EndlessTrees }
              \cup { << >>, << singleton(1) >>, << simpleShrinks >>,
                     << MkTree(5, "repeatLeaf", 0, << >>),
                        MkTree(5, "repeatLeaf", 1, << >>) >>,
                     << MkTree(5, "unfoldRepeat", 0, << >>), TowardsTree(4) >> })
        \X Budgets)
    \cup
    ({ MkProp("sumBelow", MaxRoot, Returns(Undefined)),
       MkProp("sumBelow", 1, Returns(Undefined)),
       MkProp("someBelow", 3, Returns(Undefined)),
       MkProp("equal", 0, Returns(Undefined)) }
        \X { << TowardsTree(a), TowardsTree(b) >> :
                a \in { MaxRoot - 2, MaxRoot }, b \in { MaxRoot - 1, MaxRoot } }
        \X SmallBudgets)
    \cup
    ({ MkProp("someBelow", 3, Returns(Undefined)),
       MkProp("const", 0, Returns(Bool(FALSE))) }
        \X { << TowardsTree(4), TowardsTree(5), TowardsTree(4) >> }
        \X { ShrinkOpts(Absent, Absent), ShrinkOpts(Fin(7), Absent),
             ShrinkOpts(Fin(6), Fin(5)), ShrinkOpts(Fin(20), Fin(15)) })

InitShrink ==
    /\ \E sc \in ShrinkScenarios :
        /\ prop = sc[1]
        /\ args = sc[2]
        /\ shrinkOpts = sc[3]
    /\ pc = "idle"
    /\ NoRunner
    /\ NoGen
    /\ sh = << >>
    /\ stack = << >>
    /\ ret = << >>
    /\ origArgs = << >>
    /\ evals = 0
    /\ evalsOf = << >>
    /\ failed = {}
    /\ cut = FALSE
    /\ returned = << >>

NextShrink ==
    \/ ShrinkStart
    \/ ShrinkAgain
    \/ ShrinkLoop
    \/ SingleStep
    \/ SingleReturn
    \/ ShrinkAfterSingle

SpecShrink == InitShrink /\ [][NextShrink]_vars

\* shrink runs to its end: every step of it is taken when it can be
FairSpecShrink == SpecShrink /\ WF_vars(NextShrink)

(***************************************************************************)
(* The runner: given(gens), one withOptions, then check calls               *)
(***************************************************************************)
\* runner r exists and has at most n iterations: the check calls tried
Within(r, n) == r \in 1 .. Len(runners) /\ IntOf(runners[r].iterations) <= n

nat == MkGen("nat", 0)

OutcomeValues ==
    { Undefined, Bool(TRUE), Number(1), String(1), Object(1),
      Bool(FALSE), Number(0), String(0), Null, NaNValue }

ConstProps ==
    { MkProp("const", 0, Returns(v)) : v \in OutcomeValues }
      \cup { MkProp("const", 0, Throws(v)) : v \in {Object(1), Number(0)} }

\* a property with the generators it is given
ArgScenarios ==
    { << MkProp("someBelow", 2, Returns(Undefined)), << nat >> >>,
      << MkProp("throwFrom", 3, Returns(Undefined)), << nat, MkGen("sized", 0) >> >>,
      << MkProp("equal", 0, Returns(Undefined)), << nat, nat >> >>,
      << MkProp("first", 0, Returns(Undefined)), << MkGen("sized", 0), nat >> >> }

Scenarios == (ConstProps \X { << >> }) \cup ArgScenarios

SeedChoices == { SeedAbsent, SeedLiteral(SeedOf(1, 2, 3, 4)) }

\* startSize and maxSize: the defaults, or sizes from 0 to 5
SizeChoices == { << Absent, Absent >>, << Fin(0), Fin(5) >> }

\* the overrides tried on the runner given(...) returns
CheckOverrides ==
    { MkOpts(Fin(n), si, sz[1], sz[2], sd) :
        n \in 0 .. MaxIterations,
        si \in {Absent, Fin(2)},
        sz \in SizeChoices,
        sd \in SeedChoices }

Init ==
    /\ \E sc \in Scenarios : prop = sc[1] /\ gens = sc[2]
    /\ runners = << defaultOpts >>
    /\ reproduces = << 0 >>
    /\ lastCall = NoCall
    /\ pc = "idle"
    /\ run = NoRun
    /\ evalLog = << >>
    /\ results = << >>
    /\ NoShrink
    /\ NoGen

Next ==
    \/ \E o \in CheckOverrides : Len(runners) = 1 /\ WithOptions(1, o)
    \/ \E k \in 1 .. MaxCalls : WithFailureOptions(k)
    \/ \E r \in 1 .. MaxRunners : Within(r, MaxIterations) /\ CheckStart(r)
    \/ CheckIteration
    \/ CheckPass

Spec == Init /\ [][Next]_vars

(***************************************************************************)
(* withOptions alone: overrides of every kind, on every runner made so far *)
(***************************************************************************)
NoOverride == MkOpts(Absent, Absent, Absent, Absent, SeedAbsent)

OptOverrides ==
    { [NoOverride EXCEPT !.iterations = v] :
        v \in { Fin(0), Fin(1), Fin(-1), HalfAbove(1), NaN, Infinity, UndefinedOpt } }
      \cup { [NoOverride EXCEPT !.startIteration = v] :
        v \in { Fin(0), Fin(1), Fin(2), HalfAbove(0), UndefinedOpt } }
      \cup { [NoOverride EXCEPT !.startSize = v] :
        v \in { Fin(-1), Fin(0), Fin(4), HalfAbove(3), Fin(DefaultMaxSize + 1) } }
      \cup { [NoOverride EXCEPT !.maxSize = v] :
        v \in { Fin(0), Fin(2), Fin(3), Fin(4), HalfAbove(4), Infinity } }
      \cup { [NoOverride EXCEPT !.startSize = Fin(4), !.maxSize = v] :
        v \in { Fin(3), Fin(4) } }

InitOpts ==
    /\ prop = MkProp("const", 0, Returns(Undefined))
    /\ gens = << >>
    /\ runners = << defaultOpts >>
    /\ reproduces = << 0 >>
    /\ lastCall = NoCall
    /\ pc = "idle"
    /\ run = NoRun
    /\ evalLog = << >>
    /\ results = << >>
    /\ NoShrink
    /\ NoGen

NextOpts == \E r \in 1 .. MaxRunners, o \in OptOverrides : WithOptions(r, o)

SpecOpts == InitOpts /\ [][NextOpts]_vars

(***************************************************************************)
(* The ramp of sizes: given(Gen.sized(n => Gen.const(n))), one withOptions *)
(* that sets iterations, startSize and maxSize, then check calls of a      *)
(* property that passes                                                    *)
(***************************************************************************)
MaxRampIterations == 7

RampSizes ==
    { << Absent, Absent >>, << Absent, Fin(50) >>, << Absent, Fin(3) >>,
      << Fin(0), Fin(3) >>, << Fin(1), Fin(3) >>, << Fin(1), Fin(50) >>,
      << Fin(2), Fin(6) >>, << Fin(50), Absent >> }

RampOverrides ==
    { MkOpts(Fin(n), si, sz[1], sz[2], SeedAbsent) :
        n \in 1 .. MaxRampIterations, si \in {Absent, Fin(3)}, sz \in RampSizes }

InitRamp ==
    /\ prop = MkProp("const", 0, Returns(Bool(TRUE)))
    /\ gens = << MkGen("sized", 0) >>
    /\ runners = << defaultOpts >>
    /\ reproduces = << 0 >>
    /\ lastCall = NoCall
    /\ pc = "idle"
    /\ run = NoRun
    /\ evalLog = << >>
    /\ results = << >>
    /\ NoShrink
    /\ NoGen

NextRamp ==
    \/ \E o \in RampOverrides : Len(runners) = 1 /\ WithOptions(1, o)
    \/ \E r \in 1 .. MaxRunners : Within(r, MaxRampIterations) /\ CheckStart(r)
    \/ CheckIteration
    \/ CheckPass

SpecRamp == InitRamp /\ [][NextRamp]_vars

(***************************************************************************)
(* Generators on their own: a combinator is applied to its arguments       *)
(* (GenMake), then run is called on the generator it returned, with sizes, *)
(* seeds and iteration indices of every kind (GenRunCall)                  *)
(***************************************************************************)
MaxGenSize      == 6    \* run is called with sizes up to this
MaxGenIteration == 3    \* and with iteration indices up to this

\* the combinator op applied to the generators gs and the function f
MkSubject(op, gs, f) == [op |-> op, gens |-> gs, f |-> f]

\* what the combinator of s returns or throws; a method is called on gens[1]
Combine(s) ==
    CASE s.op = "sequence"          -> GenSequence(s.gens)
      [] s.op = "suchThatMaybe"     -> GenSuchThatMaybe(s.gens[1], s.f)
      [] s.op = "suchThat"          -> GenSuchThat(s.gens[1], s.f)
      [] s.op = "andThen"           -> GenAndThen(s.gens[1], s.f)
      [] s.op = "shrink"            -> GenShrink(s.gens[1], s.f)
      [] s.op = "shrinkRecursively" -> GenShrinkRecursively(s.gens[1], s.f)

Threw(m) == "thrown" \in DOMAIN m

GenMake ==
    /\ subject.op # "none"
    /\ made = << >>
    /\ made' = << Combine(subject) >>
    /\ UNCHANGED << subject, genCall, genTree, search, walk, applied >>
    /\ UNCHANGED << prop, pc, runnerVars, shrinkVars >>

\* made.run(sz, seed, i)
GenRunCall(sz, seed, i) ==
    /\ made # << >>
    /\ ~Threw(made[1])
    /\ made[1].g # "suchThat"
    /\ genTree = << >>
    /\ genCall' = [sz |-> sz, seed |-> seed, i |-> i]
    /\ genTree' = << GenRun(made[1], sz, seed, i) >>
    /\ UNCHANGED << subject, made, search, walk, applied >>
    /\ UNCHANGED << prop, pc, runnerVars, shrinkVars >>

(***************************************************************************)
(* run of gen.suchThat(pred), one call of it per step.  The generator is   *)
(*   this.suchThatMaybe(pred).andThen(x => x ? Gen.const(x)                *)
(*       : Gen.sized(n => this.suchThat(pred).resize(n + 1)))              *)
(* and concatMap computes the root at once, so run(sz, st, i) runs         *)
(* suchThatMaybe on the first half of split(st) and either has its root or *)
(* is run(sz + 1, s1, i) on the second half.  search.rounds keeps, for     *)
(* every call, its size and what suchThatMaybe found.                      *)
(***************************************************************************)
MaxSearchSize == 8      \* the searches followed stay below this size

\* made.run(sz, seed, i), made a suchThat generator: the call
SuchThatStart(sz, seed, i) ==
    /\ made # << >>
    /\ ~Threw(made[1])
    /\ made[1].g = "suchThat"
    /\ search.pc = "none"
    /\ search' = [pc |-> "run", sz |-> sz, seed |-> seed, i |-> i,
                  rounds |-> << >>, value |-> << >>]
    /\ genCall' = [sz |-> sz, seed |-> seed, i |-> i]
    /\ UNCHANGED << subject, made, genTree, walk, applied >>
    /\ UNCHANGED << prop, pc, runnerVars, shrinkVars >>

\* one call of run of the suchThat generator, the first or a nested one
SuchThatRun ==
    /\ search.pc = "run"
    /\ search.sz < MaxSearchSize
    /\ \E x \in { GenRun(GenSuchThatMaybe(made[1].sub[1], made[1].c),
                          search.sz, step(search.seed), search.i).value } :
        LET round == [sz |-> search.sz, found |-> x]
        IN  IF TruthyMaybe(x)
            THEN search' = [search EXCEPT !.pc = "done",
                                          !.rounds = Append(@, round),
                                          !.value = << x[1] >>]
            ELSE search' = [search EXCEPT !.sz = @ + 1,
                                          !.seed = jump(search.seed),
                                          !.rounds = Append(@, round)]
    /\ UNCHANGED << subject, made, genCall, genTree, walk, applied >>
    /\ UNCHANGED << prop, pc, runnerVars, shrinkVars >>

\* makeSeedState("0") and makeSeedState("2"), two of the seeds of the tests
GenSeeds == { makeSeedState(<< 48 >>), makeSeedState(<< 50 >>) }

towards0 == MkFn("towards", 0)

\* the generators of the tests of sequence, and generators that use the
\* size, the seed and the iteration index
SequenceSubjects ==
    { MkSubject("sequence", gs, MkFn("none", 0)) :
        gs \in { << >>,
                 << GenConst(0), GenConst(5) >>,
                 << GenShrink(GenConst(0), MkFn("list", << 1 >>)),
                    GenShrink(GenConst(1), MkFn("list", << 2, 3 >>)) >>,
                 << GenShrink(GenConst(0), MkFn("list", << 1, 2 >>)),
                    GenShrink(GenConst(3), MkFn("list", << 4, 5 >>)) >>,
                 << nat, MkGen("sized", 0), GenConst(5) >>,
                 << GenConst(0),
                    GenSequence(<< GenConst(7), GenConst(8), GenConst(9) >>) >>,
                 << nat >> } }

\* the generator and the predicate of the tests of suchThatMaybe, and others
\* whose values depend on the size or the seed
SearchCases ==
    { << MkGen("sized", 0), MkFn("gt", 10) >>,
      << MkGen("sized", 0), MkFn("ge", 0) >>,
      << MkGen("sized", 0), MkFn("eq", 7) >>,
      << nat, MkFn("even", 0) >>,
      << nat, MkFn("gt", 2) >>,
      << nat, MkFn("never", 0) >>,
      << GenConst(0), MkFn("eq", 0) >> }

SuchThatMaybeSubjects ==
    { MkSubject("suchThatMaybe", << c[1] >>, c[2]) : c \in SearchCases }

SuchThatSubjects ==
    { MkSubject("suchThat", << c[1] >>, c[2]) : c \in SearchCases }

\* the generators of the test of andThen, and nat bound to a generator that
\* shrinks towards the value it is given
AndThenSubjects ==
    { MkSubject("andThen", << GenShrink(GenConst(3), towards0) >>, [s |-> "spaces"]),
      MkSubject("andThen", << nat >>, [s |-> "constOf", c |-> 2]),
      MkSubject("andThen", << MkGen("sized", 0) >>, [s |-> "constOf", c |-> 1]) }

\* the generators of the tests of shrink, and nat, whose tree has subtrees
ShrinkSubjects ==
    { MkSubject("shrink", << GenConst(10) >>, towards0),
      MkSubject("shrink", << GenShrink(GenConst(10), towards0) >>, MkFn("single", 100)),
      MkSubject("shrink", << nat >>, MkFn("single", 100)),
      MkSubject("shrink", << nat >>, towards0) }

\* the generators of the tests of shrinkRecursively, and nat, whose tree
\* has subtrees
ShrinkRecursivelySubjects ==
    { MkSubject("shrinkRecursively", << GenConst(10) >>, towards0),
      MkSubject("shrinkRecursively", << GenShrink(GenConst(10), towards0) >>, MkFn("single", 100)),
      MkSubject("shrinkRecursively", << nat >>, towards0),
      MkSubject("shrinkRecursively", << nat >>, MkFn("upTo", 2)) }

GenSubjects ==
    SequenceSubjects \cup SuchThatMaybeSubjects \cup SuchThatSubjects
        \cup AndThenSubjects \cup ShrinkSubjects \cup ShrinkRecursivelySubjects

InitGen ==
    /\ subject \in GenSubjects
    /\ made = << >>
    /\ genCall = << >>
    /\ genTree = << >>
    /\ search = NoSearch
    /\ walk = NoWalk
    /\ applied = << >>
    /\ prop = MkProp("const", 0, Returns(Undefined))
    /\ pc = "idle"
    /\ NoRunner
    /\ NoShrink

NextGen ==
    \/ GenMake
    \/ \E sz \in 0 .. MaxGenSize, seed \in GenSeeds, i \in 0 .. MaxGenIteration :
            GenRunCall(sz, seed, i)
    \/ \E sz \in 0 .. MaxGenSize, seed \in GenSeeds : SuchThatStart(sz, seed, 0)
    \/ SuchThatRun

SpecGen == InitGen /\ [][NextGen]_vars

(***************************************************************************)
(* suchThatMaybe on its own, at sizes small enough for its trees to be     *)
(* walked down to their leaves                                             *)
(***************************************************************************)
MaxPredSize  == 3    \* run is called with sizes up to this
MaxPredDepth == 5    \* and the tree it returns is inspected down to this depth

InitSuchThatMaybe ==
    /\ subject \in SuchThatMaybeSubjects
    /\ made = << >>
    /\ genCall = << >>
    /\ genTree = << >>
    /\ search = NoSearch
    /\ walk = NoWalk
    /\ applied = << >>
    /\ prop = MkProp("const", 0, Returns(Undefined))
    /\ pc = "idle"
    /\ NoRunner
    /\ NoShrink

NextSuchThatMaybe ==
    \/ GenMake
    \/ \E sz \in 0 .. MaxPredSize, seed \in GenSeeds, i \in 0 .. MaxGenIteration :
            GenRunCall(sz, seed, i)

SpecSuchThatMaybe == InitSuchThatMaybe /\ [][NextSuchThatMaybe]_vars

(***************************************************************************)
(* Tree.ts: the iterators.  depthFirst and breadthFirst are generator      *)
(* functions; WalkStart makes the iterator and every WalkNext is one call  *)
(* of its next(), which runs the code up to the next yield or to the end.  *)
(* A node is written with its path, the child indices from the root.       *)
(***************************************************************************)
MaxWalk == 20       \* values taken from one iterator

\* new Tree(v, new Seq(kids))
Node(v, kids) == MkTree(v, "from", 0, kids)

tree0 == Node(0, << singleton(1), Node(2, << singleton(3) >>) >>)

tree1 == Node(1, << singleton(2), Node(3, << singleton(4) >>) >>)

unfoldedTree ==
    Node(1, << Node(2, << singleton(4), singleton(5) >>),
               Node(3, << singleton(4), singleton(6), singleton(7) >>),
               Node(2, << singleton(4), singleton(5) >>),
               Node(3, << singleton(6), singleton(7) >>) >>)

\* the trees of the tests, trees made by unfold and expand, a tree without
\* end and the tree of the test whose root has children without end
TreeSubjects ==
    << singleton(0), tree0, tree1, unfoldedTree,
       unfold(MkFn("upTo", 2), 0),
       unfold(towards0, 4),
       expand(tree0, MkFn("upTo", 2)),
       Node(5, << unfold(MkFn("upTo", 2), 2), singleton(6), tree1 >>),
       MkTree(7, "unfoldSame", 0, << >>),
       MkTree(0, "enumLeaves", 1, << >>) >>

Frame(t, k, path) == [t |-> t, k |-> k, path |-> path]

Yielded(t, path) == << [value |-> t.value, path |-> path] >>

RECURSIVE depthFirstNext(_)
\* next() of depthFirst(tree) and of the iterators of the children it is
\* in: frames holds, innermost last, the tree of every running depthFirst
\* and the index k of the child its loop takes next (0 before its first
\* yield)
depthFirstNext(frames) ==
    IF frames = << >> THEN [frames |-> << >>, yield |-> << >>]
    ELSE LET n    == Len(frames)
             top  == frames[n]
             rest == SubSeq(frames, 1, n - 1)
         IN  IF top.k = 0
             THEN [frames |-> Append(rest, Frame(top.t, 1, top.path)),
                   yield |-> Yielded(top.t, top.path)]
             ELSE IF HasChild(top.t, top.k)
             THEN depthFirstNext(rest \o << Frame(top.t, top.k + 1, top.path),
                                            Frame(Child(top.t, top.k), 0,
                                                  Append(top.path, top.k)) >>)
             ELSE depthFirstNext(rest)

RECURSIVE breadthFirstShiftLast(_)
\* the loop of breadthFirst as it would be with queue.pop() for queue.shift()
breadthFirstShiftLast(w) ==
    IF w.cur # << >> /\ HasChild(w.cur[1].t, w.k)
    THEN LET child == Frame(Child(w.cur[1].t, w.k), 0, Append(w.cur[1].path, w.k))
         IN  [w EXCEPT !.k = w.k + 1,
                       !.pend = << child >>,
                       !.yield = Yielded(child.t, child.path)]
    ELSE IF w.queue = << >> THEN [w EXCEPT !.cur = << >>, !.yield = << >>]
    ELSE breadthFirstShiftLast([w EXCEPT !.cur = << w.queue[Len(w.queue)] >>,
                                         !.queue = SubSeq(w.queue, 1, Len(w.queue) - 1),
                                         !.k = 1])

\* the loop of breadthFirst as it would be with the children of a tree
\* collected before the first of them is yielded: children without end are
\* never collected, and nothing is yielded
breadthFirstWholeLevel(w) ==
    IF w.cur # << >> /\ EndlessChildren(w.cur[1].t)
    THEN [w EXCEPT !.yield = << >>]
    ELSE IF w.queue = << >> THEN [w EXCEPT !.cur = << >>, !.yield = << >>]
    ELSE [w EXCEPT !.cur = << Head(w.queue) >>, !.queue = Tail(w.queue), !.k = 1,
                   !.yield = << >>]

RECURSIVE breadthFirstLoopNext(_)
\* the while loop of breadthFirst from where it stands to its next yield:
\* cur is the tree shifted off the queue, k the index of its child the for
\* loop takes next
breadthFirstLoopNext(w) ==
    IF w.cur # << >> /\ HasChild(w.cur[1].t, w.k)
    THEN LET child == Frame(Child(w.cur[1].t, w.k), 0, Append(w.cur[1].path, w.k))
         IN  [w EXCEPT !.k = w.k + 1,
                       !.pend = << child >>,
                       !.yield = Yielded(child.t, child.path)]
    ELSE IF w.queue = << >> THEN [w EXCEPT !.cur = << >>, !.yield = << >>]
    ELSE breadthFirstLoopNext([w EXCEPT !.cur = << Head(w.queue) >>,
                                        !.queue = Tail(w.queue),
                                        !.k = 1])

\* next() of breadthFirst(tree): the first call makes the queue and yields
\* the root; a later call first pushes the child it yielded last
breadthFirstNext(w) ==
    IF ~w.started
    THEN [w EXCEPT !.started = TRUE,
                   !.queue = w.frames,
                   !.yield = Yielded(w.frames[1].t, w.frames[1].path)]
    ELSE breadthFirstLoopNext([w EXCEPT !.queue = w.queue \o w.pend, !.pend = << >>])

\* tree[Symbol.iterator]() or tree.breadthFirst(): no code of the generator
\* function runs yet
WalkStart(mode) ==
    /\ subject.op = "tree"
    /\ walk.pc = "none"
    /\ walk' = [pc |-> "run", mode |-> mode,
                frames |-> << Frame(genTree[1], 0, << >>) >>,
                started |-> FALSE, queue |-> << >>, cur |-> << >>, k |-> 0,
                pend |-> << >>, yield |-> << >>,
                out |-> << >>, paths |-> << >>]
    /\ UNCHANGED << subject, made, genCall, genTree, search, applied >>
    /\ UNCHANGED << prop, pc, runnerVars, shrinkVars >>

\* iterator.next()
WalkNext ==
    /\ walk.pc = "run"
    /\ Len(walk.out) < MaxWalk
    /\ \E w \in { IF walk.mode = "depthFirst"
                  THEN LET r == depthFirstNext(walk.frames)
                       IN  [walk EXCEPT !.frames = r.frames, !.yield = r.yield]
                  ELSE breadthFirstNext(walk) } :
          walk' = IF w.yield = << >>
                  THEN [w EXCEPT !.pc = "done"]
                  ELSE [w EXCEPT !.out = Append(@, w.yield[1].value),
                                 !.paths = Append(@, w.yield[1].path)]
    /\ UNCHANGED << subject, made, genCall, genTree, search, applied >>
    /\ UNCHANGED << prop, pc, runnerVars, shrinkVars >>

InitTree ==
    /\ \E n \in 1 .. Len(TreeSubjects) :
          /\ subject = [op |-> "tree", n |-> n]
          /\ genTree = << TreeSubjects[n] >>
    /\ made = << >>
    /\ genCall = << >>
    /\ search = NoSearch
    /\ walk = NoWalk
    /\ applied = << >>
    /\ prop = MkProp("const", 0, Returns(Undefined))
    /\ pc = "idle"
    /\ NoRunner
    /\ NoShrink

NextTree ==
    \/ \E mode \in {"depthFirst", "breadthFirst"} : WalkStart(mode)
    \/ WalkNext

SpecTree == InitTree /\ [][NextTree]_vars

\* the loop that iterates (for ... of) calls next() again as long as the
\* iterator is not done
FairSpecTree == SpecTree /\ WF_vars(WalkNext)

(***************************************************************************)
(* Tree.ts: when the unfolding function is applied.  The sequences are     *)
(* lazy, so a function handed to map is applied when an element is taken;  *)
(* the arguments of a call are evaluated at the call.  subject is the tree *)
(* and the function, made the tree expand returned, applied the values the *)
(* function has been applied to.                                           *)
(***************************************************************************)
MaxChildren == 6     \* children taken from one children sequence

\* unfoldForest(unf, x) is called: `unf(x)` is the argument of new Seq(...)
unfoldForestApplies(unf, x) == << x >>

\* Tree.unfold(unf, x) is called: new Tree(x, unfoldForest(unf, x))
unfoldApplies(unf, x) == unfoldForestApplies(unf, x)

\* t.expand(unf) is called: the map over this.children applies nothing yet,
\* the argument of concat is unfoldForest(unf, this.value)
expandApplies(t, unf) == unfoldForestApplies(unf, t.value)

RECURSIVE ChildApplies(_, _)
\* the k-th element of the children sequence of t is taken
ChildApplies(t, k) ==
    CASE t.kids = "unfold" -> unfoldApplies(t.c, ShrinkFn(t.c, t.value)[k])
      [] t.kids = "expand" -> expandApplies(Child(t.sub[1], k), t.c)
      [] t.kids = "append" ->
            IF HasChild(t.sub[1], k) THEN ChildApplies(t.sub[1], k)
            ELSE ChildApplies(t.sub[2], k - NumChildren(t.sub[1]))
      [] OTHER -> << >>

ExpandSubjects ==
    { [op |-> "expand", n |-> n, unf |-> unf] :
        n \in 1 .. Len(TreeSubjects),
        unf \in { MkFn("upTo", 2), MkFn("single", 9), MkFn("none", 0) } }

\* TreeSubjects[subject.n].expand(subject.unf)
ExpandCall ==
    /\ subject.op = "expand"
    /\ made = << >>
    /\ made' = << expand(TreeSubjects[subject.n], subject.unf) >>
    /\ applied' = applied \o expandApplies(TreeSubjects[subject.n], subject.unf)
    /\ UNCHANGED << subject, genCall, genTree, search, walk >>
    /\ UNCHANGED << prop, pc, runnerVars, shrinkVars >>

\* made[1].children[Symbol.iterator]()
ChildrenStart ==
    /\ subject.op = "expand"
    /\ made # << >>
    /\ walk.pc = "none"
    /\ walk' = [pc |-> "children", k |-> 0]
    /\ UNCHANGED << subject, made, genCall, genTree, search, applied >>
    /\ UNCHANGED << prop, pc, runnerVars, shrinkVars >>

\* next() of that iterator
ChildrenNext ==
    /\ walk.pc = "children"
    /\ walk.k < MaxChildren
    /\ IF HasChild(made[1], walk.k + 1)
       THEN /\ walk' = [walk EXCEPT !.k = @ + 1]
            /\ applied' = applied \o ChildApplies(made[1], walk.k + 1)
       ELSE /\ walk' = [walk EXCEPT !.pc = "childrenDone"]
            /\ UNCHANGED applied
    /\ UNCHANGED << subject, made, genCall, genTree, search >>
    /\ UNCHANGED << prop, pc, runnerVars, shrinkVars >>

InitExpand ==
    /\ subject \in ExpandSubjects
    /\ made = << >>
    /\ genCall = << >>
    /\ genTree = << >>
    /\ search = NoSearch
    /\ walk = NoWalk
    /\ applied = << >>
    /\ prop = MkProp("const", 0, Returns(Undefined))
    /\ pc = "idle"
    /\ NoRunner
    /\ NoShrink

NextExpand ==
    \/ ExpandCall
    \/ ChildrenStart
    \/ ChildrenNext

SpecExpand == InitExpand /\ [][NextExpand]_vars

(***************************************************************************)
(* The functions of shrink.ts and prng.ts on their own: the arguments are  *)
(* in subject, the call puts what it returns in made.                      *)
(***************************************************************************)
MaxTowards == 50    \* towardsIntegral on integers of at most this magnitude

\* towardsIntegral(subject.d, subject.x)
TowardsCall ==
    /\ subject.op = "towardsIntegral"
    /\ made = << >>
    /\ made' = << towardsIntegral(subject.d, subject.x) >>
    /\ UNCHANGED << subject, genCall, genTree, search, walk, applied >>
    /\ UNCHANGED << prop, pc, runnerVars, shrinkVars >>

MaxNextInt == 3     \* nextInt on the ranges between -MaxNextInt and MaxNextInt

\* nextInt(subject.s, {minBound: subject.lo, maxBound: subject.hi})
NextIntCall ==
    /\ subject.op = "nextInt"
    /\ made = << >>
    /\ made' = << nextInt(subject.s, subject.lo, subject.hi) >>
    /\ UNCHANGED << subject, genCall, genTree, search, walk, applied >>
    /\ UNCHANGED << prop, pc, runnerVars, shrinkVars >>

\* a seed state with the first word w: the scramble depends on it alone
FirstWord(w) == << w, << 0, 2 >>, << 0, 3 >>, << 0, 4 >> >>

\* seeds of the tests, stepped, and seeds whose scramble is 0, 1,
\* 0x55555555, 0x7fffffff, 0x80000000 and 0xffffffff
PrngSeeds ==
    { makeSeedState(<< k >>) : k \in 48 .. 52 }
        \cup { step(makeSeedState(<< k >>)) : k \in 48 .. 52 }
        \cup { FirstWord(w) : w \in { << 0, 0 >>, << 18966, 49516 >>,
                                       << 11222, 18447 >>, << 46620, 29127 >>,
                                       << 52480, 0 >>, << 33564, 29127 >> } }

\* the ranges of the tests among them: 0..1, 1..3, -3..3
NextIntRanges ==
    { r \in (-MaxNextInt .. MaxNextInt) \X (-MaxNextInt .. MaxNextInt) : r[1] <= r[2] }
        \cup { << 0, 48 >>, << -5000, 4999 >> }

NextIntSubjects ==
    { [op |-> "nextInt", s |-> s, lo |-> r[1], hi |-> r[2]] :
        s \in PrngSeeds, r \in NextIntRanges }

\* split(subject.s)
SplitCall ==
    /\ subject.op = "split"
    /\ made = << >>
    /\ made' = << split(subject.s) >>
    /\ UNCHANGED << subject, genCall, genTree, search, walk, applied >>
    /\ UNCHANGED << prop, pc, runnerVars, shrinkVars >>

\* the seeds above and seed literals of small words (the option seed takes
\* any four numbers)
SplitSubjects ==
    { [op |-> "split", s |-> s] :
        s \in PrngSeeds \cup { SeedOf(a, b, b, b) : a \in 0 .. 1, b \in 0 .. 2 }
                        \cup { SeedOf(1, 2, 3, 4) } }

TowardsSubjects ==
    { [op |-> "towardsIntegral", d |-> d, x |-> x] :
        d \in -MaxTowards .. MaxTowards, x \in -MaxTowards .. MaxTowards }

InitPure ==
    /\ subject \in TowardsSubjects \cup NextIntSubjects \cup SplitSubjects
    /\ made = << >>
    /\ genCall = << >>
    /\ genTree = << >>
    /\ search = NoSearch
    /\ walk = NoWalk
    /\ applied = << >>
    /\ prop = MkProp("const", 0, Returns(Undefined))
    /\ pc = "idle"
    /\ NoRunner
    /\ NoShrink

NextPure ==
    \/ TowardsCall
    \/ NextIntCall
    \/ SplitCall

SpecPure == InitPure /\ [][NextPure]_vars

(***************************************************************************)
(* Claims about check                                                      *)
(***************************************************************************)
\* the values for which `!!v` is false, undefined aside
FalsyValues == { Bool(FALSE), Number(0), String(0), Null, NaNValue }

\* C1: every evaluation of the property is classified by what the call did:
\* a thrown value makes the call a failure whose error is that value; a
\* returned false, 0, '', null or NaN makes it a failure without error; a
\* returned undefined or truthy value does not make a failure.
C1_Classification ==
    \A k \in 1 .. Len(results) :
        LET r == results[k]
            n == Len(r.log)
        IN  /\ ~r.result.pass => n >= 1
            /\ \A e \in 1 .. n :
                LET o == Call(prop, r.log[e].args)
                IN  IF o.thrown
                    THEN e = n /\ ~r.result.pass /\ r.result.error = o.val
                    ELSE IF o.val \in FalsyValues
                    THEN e = n /\ ~r.result.pass /\ r.result.error = Undefined
                    ELSE e = n => r.result.pass

\* a call whose property returned undefined and then threw an object
C1_Witness ==
    \E k \in 1 .. Len(results) :
        /\ ~results[k].result.pass
        /\ results[k].result.error = Object(1)
        /\ Len(results[k].log) >= 2
        /\ prop.kind = "throwFrom"

\* C2: a check call stops at the first failing iteration: the evaluations
\* are those of the iterations from startIteration on, all before the last
\* passed, the Failure names the number of the failing iteration, the trees
\* whose roots were the evaluated tuple and the floored size the generators
\* were given, and the property is not evaluated after it.
C2_FirstFailure ==
    \A k \in 1 .. Len(results) :
        LET r == results[k]
            n == Len(r.log)
            f == r.result
            first == IntOf(runners[r.runner].startIteration)
        IN  /\ \A e \in 1 .. n : r.log[e].iteration = first + e - 1
            /\ \A e \in 1 .. n - 1 : check(prop, r.log[e].args).ok
            /\ ~f.pass =>
                /\ n >= 1
                /\ ~check(prop, r.log[n].args).ok
                /\ f.iteration = first + n - 1
                /\ Values(f.args) = r.log[n].args
                /\ f.size = r.log[n].size
                /\ \A j \in 1 .. Len(gens) :
                        gens[j].g = "sized" => f.args[j].value = f.size
            /\ (pc = "idle" /\ k = Len(results)) => evalLog = r.log

\* a failure in the second executed iteration of a run that started at
\* iteration 2, with a generator that hands on the size it is given
C2_Witness ==
    \E k \in 1 .. Len(results) :
        /\ ~results[k].result.pass
        /\ Len(results[k].log) = 2
        /\ results[k].result.iteration = 3
        /\ \E j \in 1 .. Len(gens) : gens[j].g = "sized"

\* C3: two check calls on runners with the same generators, property and
\* options evaluate the same tuples in the same order and return the same
\* result.
C3_Deterministic ==
    \A k1, k2 \in 1 .. Len(results) :
        runners[results[k1].runner] = runners[results[k2].runner]
            => /\ results[k1].log = results[k2].log
               /\ results[k1].result = results[k2].result

\* two calls on one runner, each failing after a passed iteration of
\* generated arguments
C3_Witness ==
    \E k1, k2 \in 1 .. Len(results) :
        /\ k1 < k2
        /\ results[k1].runner = results[k2].runner
        /\ ~results[k2].result.pass
        /\ Len(results[k2].log) >= 2
        /\ Len(gens) = 2

\* C4: a check call on the failed runner with seed, startIteration and
\* startSize overridden by the seed, iteration and size of the Failure
\* fails in its first executed iteration, with the same argument roots.
C4_Reproduces ==
    \A k2 \in 1 .. Len(results) :
        LET k1 == reproduces[results[k2].runner]
        IN  k1 # 0 =>
                /\ ~results[k2].result.pass
                /\ Len(results[k2].log) = 1
                /\ Values(results[k2].result.args) = Values(results[k1].result.args)

\* a failure after the first executed iteration, run again from its options
C4_Witness ==
    \E k2 \in 1 .. Len(results) :
        LET k1 == reproduces[results[k2].runner]
        IN  /\ k1 # 0
            /\ Len(results[k1].log) >= 2
            /\ Len(gens) >= 1

(***************************************************************************)
(* Claims about withOptions                                                *)
(***************************************************************************)
\* iterations is an integer > 0, startIteration an integer >= 1, startSize
\* an integer >= 0, maxSize an integer >= startSize
Constraints(opts) ==
    /\ opts.iterations.k = "fin" /\ opts.iterations.t2 % 2 = 0
    /\ opts.iterations.t2 >= 2
    /\ opts.startIteration.k = "fin" /\ opts.startIteration.t2 % 2 = 0
    /\ opts.startIteration.t2 >= 2
    /\ opts.startSize.k = "fin" /\ opts.startSize.t2 % 2 = 0
    /\ opts.startSize.t2 >= 0
    /\ opts.maxSize.k = "fin" /\ opts.maxSize.t2 % 2 = 0
    /\ opts.maxSize.t2 >= opts.startSize.t2

C10_LastCall ==
    lastCall.op = "withOptions" =>
        LET merged == Merge(runners[lastCall.on], lastCall.o)
        IN  /\ lastCall.threw <=> ~Constraints(merged)
            /\ ~lastCall.threw =>
                /\ Len(runners) > lastCall.on
                /\ runners[Len(runners)] = merged

C10_Step ==
    /\ \A r \in 1 .. Len(runners) : r <= Len(runners') /\ runners'[r] = runners[r]
    /\ lastCall'.threw => runners' = runners
    /\ ~lastCall'.threw => Len(runners') = Len(runners) + 1

\* C10: withOptions throws exactly when the options of the runner overlaid
\* with the override break one of the four constraints; otherwise it returns
\* a new runner with the overlaid options, and in both cases the runners
\* that existed before keep their options.
C10_WithOptions == []C10_LastCall /\ [][C10_Step]_vars

\* an override that the runner given(...) returns accepts is refused by a
\* runner made with other options
C10_Witness ==
    /\ lastCall.op = "withOptions"
    /\ lastCall.threw
    /\ lastCall.on = 2
    /\ Constraints(Merge(defaultOpts, lastCall.o))

(***************************************************************************)
(* Claims about shrink                                                     *)
(***************************************************************************)
\* the root values shrink was called with
OrigRoots == Values(origArgs)

AllPassEndless ==
    /\ prop.kind = "const"
    /\ ~prop.out.thrown
    /\ prop.out.val \notin FalsyValues
    /\ \A j \in 1 .. Len(args) : EndlessChildren(args[j])

\* the budgets of the call, 100 per argument and no total when not given
PerArgumentBudget ==
    IF shrinkOpts.maxShrinksPerArgument.k = "absent" THEN Fin(100)
    ELSE shrinkOpts.maxShrinksPerArgument
TotalBudget ==
    IF shrinkOpts.maxShrinks.k = "absent" THEN Infinity ELSE shrinkOpts.maxShrinks

\* C7: no argument has more than maxShrinksPerArgument candidates
\* evaluated and the call no more than maxShrinks; when every candidate of
\* endless children passes, the count returned is the budget: the smaller of
\* maxShrinks and maxShrinksPerArgument times the number of arguments, so
\* 20 for maxShrinks = 20, 18 for maxShrinksPerArgument = 9 and two
\* arguments, 200 for two arguments and no options.
C7_Budgets ==
    pc # "idle" =>
        /\ PerArgumentBudget.k = "fin" =>
                \A j \in 1 .. Len(evalsOf) : 2 * evalsOf[j] <= PerArgumentBudget.t2
        /\ TotalBudget.k = "fin" => 2 * evals <= TotalBudget.t2
        /\ (pc = "done" /\ AllPassEndless) =>
            /\ (PerArgumentBudget.k = "fin" /\ TotalBudget.k = "fin") =>
                    2 * sh.shrinks = Min(TotalBudget.t2,
                                         Len(args) * PerArgumentBudget.t2)
            /\ (PerArgumentBudget.k = "fin" /\ TotalBudget.k # "fin") =>
                    2 * sh.shrinks = Len(args) * PerArgumentBudget.t2
            /\ (PerArgumentBudget.k # "fin" /\ Len(args) > 0) =>
                    2 * sh.shrinks = TotalBudget.t2
            /\ (shrinkOpts = ShrinkOpts(Fin(20), Absent) /\ Len(args) = 1) =>
                    sh.shrinks = 20
            /\ (shrinkOpts = ShrinkOpts(Absent, Fin(9)) /\ Len(args) = 2) =>
                    sh.shrinks = 18
            /\ (shrinkOpts = ShrinkOpts(Absent, Absent) /\ Len(args) = 2) =>
                    sh.shrinks = 200

\* two arguments with endless children, no options: 200 evaluations
C7_Witness ==
    /\ pc = "done"
    /\ AllPassEndless
    /\ Len(args) = 2
    /\ shrinkOpts = ShrinkOpts(Absent, Absent)
    /\ evals = 200

\* maxShrinks or maxShrinksPerArgument (100 when not given) is finite
FiniteBudget ==
    \/ shrinkOpts.maxShrinks.k = "fin"
    \/ shrinkOpts.maxShrinksPerArgument.k \in {"fin", "absent"}

\* C8: a shrink call with a finite maxShrinks or a finite
\* maxShrinksPerArgument returns, whatever the trees.
C8_Terminates == (pc = "shrink" /\ FiniteBudget) ~> (pc = "done")

\* a call on a tree without end in width and depth, whose candidates all
\* fail, has returned
C8_Witness ==
    /\ pc = "done"
    /\ FiniteBudget
    /\ Len(args) = 1
    /\ origArgs[1].kids = "unfoldRepeat"
    /\ prop = MkProp("const", 0, Returns(Bool(FALSE)))
    /\ evals = 100
    /\ cut

\* C9: the count shrink returns is the number of evaluations of the
\* property made in the call.
C9_ExactCount == pc \in {"shrink", "done"} => sh.shrinks = evals

\* a call that a budget cut short, after candidates that failed and
\* candidates that passed
C9_Witness ==
    /\ pc = "done"
    /\ cut
    /\ failed # {}
    /\ evals > Cardinality(failed)
    /\ evals >= 3

(***************************************************************************)
(* Claims about the iterations and sizes of check                          *)
(***************************************************************************)
\* C11: a check call in which no evaluation fails, made on a runner with
\* startIteration <= iterations, evaluates the property once for every
\* iteration from startIteration to iterations, in that order and no more
\* (iterations - startIteration + 1 evaluations), and returns a Pass whose
\* iteration is iterations.
C11_OncePerIteration ==
    \A k \in 1 .. Len(results) :
        LET r  == results[k]
            o  == runners[r.runner]
            si == IntOf(o.startIteration)
            n  == IntOf(o.iterations)
        IN  (si <= n /\ \A e \in 1 .. Len(r.log) : check(prop, r.log[e].args).ok)
            => /\ r.result.pass
               /\ Len(r.log) = n - si + 1
               /\ \A e \in 1 .. Len(r.log) : r.log[e].iteration = si + e - 1
               /\ r.result.iteration = n

\* a passed call that started at iteration 2 of 3, and one that ran all 3
C11_Witness ==
    /\ \E k \in 1 .. Len(results) :
        /\ results[k].result.pass
        /\ IntOf(runners[results[k].runner].startIteration) = 2
        /\ IntOf(runners[results[k].runner].iterations) = 3
        /\ Len(results[k].log) = 2
    /\ Len(gens) > 0

\* startSize * (N - 1) + (k - 1) * (maxSize - startSize): the size of
\* iteration k on the straight line, times N - 1
LineNum(o, k) ==
    IntOf(o.startSize) * (IntOf(o.iterations) - 1)
        + (k - 1) * (IntOf(o.maxSize) - IntOf(o.startSize))

SizeRamp ==
    \A c \in 1 .. Len(results) :
        LET o   == runners[results[c].runner]
            N   == IntOf(o.iterations)
            log == results[c].log
        IN  IntOf(o.startIteration) = 1 =>
            /\ \A e \in 1 .. Len(log) :
                LET k  == log[e].iteration
                    sz == log[e].size
                IN  /\ log[e].args = << sz >>
                    /\ k = 1 => sz = IntOf(o.startSize)
                    /\ (k = N /\ N >= 2) => sz = IntOf(o.maxSize)
                    /\ N >= 2 =>
                        \/ sz = LineNum(o, k) \div (N - 1)
                        \/ /\ sz = LineNum(o, k) \div (N - 1) - 1
                           /\ LineNum(o, k) % (N - 1) = 0
                           /\ 1 < k /\ k < N
            /\ (N = 5 /\ o.startSize = Fin(3) /\ o.maxSize = Fin(50)
                    /\ results[c].result.pass)
                => [e \in 1 .. Len(log) |-> log[e].size] = << 3, 14, 26, 38, 50 >>

C13_MaxByPenultimate ==
    \A c \in 1 .. Len(results) :
        LET o == runners[results[c].runner]
        IN  IntOf(o.iterations) >= 2 =>
            \A e \in 1 .. Len(results[c].log) :
                results[c].log[e].iteration = IntOf(o.iterations) - 1
                    => results[c].log[e].size = IntOf(o.maxSize)

\* C13, amended: for iterations = N >= 2 a run that executes iteration N - 1
\* (startIteration <= N - 1) has its size set to exactly maxSize when that
\* iteration ends, so the last iteration N is the one that runs at maxSize;
\* every iteration before the last, the second-to-last included, runs below
\* maxSize when startSize < maxSize.  A run that starts at iteration N runs
\* it at startSize.
C13_MaxAtLast ==
    /\ (pc = "check" /\ IntOf(run.options.iterations) >= 2
            /\ run.iteration >= IntOf(run.options.iterations)
            /\ IntOf(run.options.startIteration) < IntOf(run.options.iterations))
        => run.size = DblOfInt(IntOf(run.options.maxSize))
    /\ \A c \in 1 .. Len(results) :
        LET o  == runners[results[c].runner]
            N  == IntOf(o.iterations)
            si == IntOf(o.startIteration)
        IN  N >= 2 =>
            \A e \in 1 .. Len(results[c].log) :
                LET k  == results[c].log[e].iteration
                    sz == results[c].log[e].size
                IN  /\ (k = N /\ si < N) => sz = IntOf(o.maxSize)
                    /\ (k < N /\ IntOf(o.startSize) < IntOf(o.maxSize))
                            => sz < IntOf(o.maxSize)
                    /\ k = si => sz = IntOf(o.startSize)

\* five iterations from size 3 to 50 have run: the fourth at 38, the fifth
\* at 50
C13_Witness ==
    \E c \in 1 .. Len(results) :
        LET o == runners[results[c].runner]
        IN  /\ o.iterations = Fin(5) /\ o.startSize = Fin(3) /\ o.maxSize = Fin(50)
            /\ o.startIteration = Fin(1)
            /\ results[c].result.pass
            /\ Len(results[c].log) = 5
            /\ results[c].log[4].size = 38
            /\ results[c].log[5].size = 50

(***************************************************************************)
(* Claims about generators                                                 *)
(***************************************************************************)
\* C14: Gen.sequence(g0, ..., gn) run with iteration index i returns the
\* tree that g[min(i, n)] returns for the same size, seed and i, the root
\* and every shrink, and nothing of the generators before it;
\* sequence(const(0), const(5)) yields 0 at i = 0 and 5 at every i >= 1;
\* called with no generator, Gen.sequence throws RangeError.
C14_Sequence ==
    subject.op = "sequence" =>
        /\ made # << >> => (made[1] = RangeError <=> Len(subject.gens) = 0)
        /\ genTree # << >> =>
            LET n      == Len(subject.gens) - 1
                picked == subject.gens[Min(genCall.i, n) + 1]
                t      == GenRun(picked, genCall.sz, genCall.seed, genCall.i)
            IN  /\ genTree[1] = t
                /\ depthFirst(genTree[1]) = depthFirst(t)
                /\ subject.gens = << GenConst(0), GenConst(5) >>
                    => depthFirst(genTree[1]) = << IF genCall.i = 0 THEN 0 ELSE 5 >>

\* sequence(g0, g1) with shrinks 1, 2 under 0 and 4, 5 under 3 was run with
\* i = 3, beyond its last generator: the tree is 3 with the shrinks 4 and 5
C14_Witness ==
    /\ subject.op = "sequence"
    /\ Len(subject.gens) = 2
    /\ genTree # << >>
    /\ genCall.i = 3
    /\ depthFirst(genTree[1]) = << 3, 4, 5 >>

RECURSIVE AttemptValues(_, _, _, _, _)
\* the values gen produces in the attempts of a search at the sizes m .. n
\* that is started with the seed st: every attempt splits the seed the one
\* before it left and runs gen on the first half
AttemptValues(gen, m, n, st, i) ==
    IF m > n THEN << >>
    ELSE << GenRun(gen, m, step(st), i).value >>
            \o AttemptValues(gen, m + 1, n, jump(st), i)

\* C15: g.suchThatMaybe(pred) run at size n runs g at the sizes n, n + 1,
\* ..., 2n in that order and stops at the first success: its root is the
\* value g produced at the smallest of these sizes whose value satisfies
\* pred, or undefined when none of the n + 1 attempts satisfies pred;
\* Gen.sized(sz => Gen.const(sz)).suchThatMaybe(x => x > 10) yields 11 at
\* size 6 and undefined at size 2.
C15_SuchThatMaybe ==
    (subject.op = "suchThatMaybe" /\ genTree # << >>) =>
        \E vals \in { AttemptValues(subject.gens[1], genCall.sz, 2 * genCall.sz,
                                    genCall.seed, genCall.i) } :
            LET n    == genCall.sz
                hits == { j \in 1 .. n + 1 : Pred(subject.f, vals[j]) }
            IN  /\ Len(vals) = n + 1
                /\ hits = {} => genTree[1].value = << >>
                /\ hits # {} =>
                    \E j \in hits :
                        /\ \A h \in hits : j <= h
                        /\ genTree[1].value = << vals[j] >>
                /\ (subject.gens[1] = MkGen("sized", 0) /\ subject.f = MkFn("gt", 10)) =>
                    /\ n = 6 => genTree[1].value = << 11 >>
                    /\ n = 2 => genTree[1].value = << >>

\* nat.suchThatMaybe(x => x > 2) was run at size 6 and found its value in
\* the third attempt or later
C15_Witness ==
    /\ subject.op = "suchThatMaybe"
    /\ subject.gens[1] = nat
    /\ subject.f = MkFn("gt", 2)
    /\ genTree # << >>
    /\ genCall.sz = 6
    /\ genTree[1].value # << >>
    /\ \A j \in 1 .. 2 :
        ~Pred(subject.f, AttemptValues(nat, 6, 7, genCall.seed, genCall.i)[j])

\* C16 as stated: whenever suchThatMaybe's search over [n, 2n] found a
\* value satisfying pred, run of suchThat ends there with that value as its
\* root, 0 included; it goes on at the size n + 1 only when the search found
\* nothing.
C16_StopsWhenFound ==
    search.pc \in {"run", "done"} =>
        \A r \in 1 .. Len(search.rounds) :
            search.rounds[r].found # << >> =>
                /\ r = Len(search.rounds)
                /\ search.pc = "done"
                /\ search.value = search.rounds[r].found

\* Gen.const(0).suchThat(x => x === 0): the search at the size n found 0,
\* and run went on at the size n + 1
C16_Witness ==
    /\ subject.op = "suchThat"
    /\ subject.gens[1] = GenConst(0)
    /\ search.pc = "run"
    /\ Len(search.rounds) >= 1
    /\ search.rounds[1].found = << 0 >>
    /\ search.sz = search.rounds[1].sz + 1

RECURSIVE Shape(_)
\* a finite tree written out: its root value and the written-out children
Shape(t) == << t.value, AsTuple([k \in 1 .. NumChildren(t) |-> Shape(Child(t, k))]) >>

RECURSIVE IsBound(_, _, _)
\* the tree t is the tree g with the function f bound over it: its root is
\* the root of f(x) for the root x of g, and its children are the children
\* of g with f bound over them, then the children of f(x)
IsBound(t, g, f) ==
    LET k == GenRun(Bind(f.f, g.value), f.sz, f.seed, f.i)
        n == NumChildren(g)
    IN  /\ t.value = k.value
        /\ NumChildren(t) = n + NumChildren(k)
        /\ \A j \in 1 .. n : IsBound(Child(t, j), Child(g, j), f)
        /\ \A j \in 1 .. NumChildren(k) : Shape(Child(t, n + j)) = Shape(Child(k, j))

\* C17: the tree of g.andThen(f) has the root of f(x)'s tree for g's root
\* x, and its children are, in order, the children of g's tree with f bound
\* over them (f's generator run on the shrunk value), then the children of
\* f(x)'s own tree; Gen.const(3).shrink(x => towardsIntegral(0, x)).andThen(
\* x => Gen.const(' '.repeat(x)).shrink(s => ["str * '" + s + "'"]))
\* iterates as '   ', '', "str * ''", '  ', "str * '  '", "str * '   '" for
\* every seed.
C17_AndThen ==
    (subject.op = "andThen" /\ genTree # << >>) =>
        /\ IsBound(genTree[1],
                   GenRun(subject.gens[1], genCall.sz, step(genCall.seed), genCall.i),
                   MkBind(subject.f, genCall.sz, jump(genCall.seed), genCall.i))
        /\ subject.f.s = "spaces" =>
            depthFirst(genTree[1]) =
                << Spaces(3), Spaces(0), ShrinkFn(MkFn("str", 0), Spaces(0))[1],
                   Spaces(2), ShrinkFn(MkFn("str", 0), Spaces(2))[1],
                   ShrinkFn(MkFn("str", 0), Spaces(3))[1] >>

\* nat.andThen(x => Gen.const(x + 2).shrink(y => towardsIntegral(x, y))) was
\* run and drew 1 or more: the tree has the shrinks of nat's tree, bound,
\* before the two shrinks of the constant
C17_Witness ==
    /\ subject.op = "andThen"
    /\ subject.gens[1] = nat
    /\ genTree # << >>
    /\ genTree[1].value >= 3
    /\ NumChildren(genTree[1]) >= 3
    /\ Child(genTree[1], 1).value = 2

\* C18: the tree of g.shrink(f) has the root of g's tree, then the children
\* of g's tree, unchanged and in order, then one leaf per element of
\* f(root), in order: f is applied to no other node.
\* Gen.const(10).shrink(x => towardsIntegral(0, x)).shrink(_ => [100])
\* iterates as 10, 0, 5, 8, 9, 100.
C18_Shrink ==
    (subject.op = "shrink" /\ genTree # << >>) =>
        LET t  == genTree[1]
            g  == GenRun(subject.gens[1], genCall.sz, genCall.seed, genCall.i)
            n  == NumChildren(g)
            xs == ShrinkFn(subject.f, g.value)
        IN  /\ t.value = g.value
            /\ NumChildren(t) = n + Len(xs)
            /\ \A j \in 1 .. n : Shape(Child(t, j)) = Shape(Child(g, j))
            /\ \A j \in 1 .. Len(xs) :
                /\ Child(t, n + j).value = xs[j]
                /\ NumChildren(Child(t, n + j)) = 0
            /\ (subject.gens[1] = GenShrink(GenConst(10), towards0)
                    /\ subject.f = MkFn("single", 100)) =>
                depthFirst(t) = << 10, 0, 5, 8, 9, 100 >>

\* nat.shrink(x => towardsIntegral(0, x)) was run and drew 2 or more: the
\* tree has nat's shrinks, the second with shrinks of its own, and then a
\* leaf for every element of f(root), the first of them 0
C18_Witness ==
    /\ subject.op = "shrink"
    /\ subject.gens[1] = nat
    /\ subject.f = towards0
    /\ genTree # << >>
    /\ genTree[1].value >= 2
    /\ NumChildren(genTree[1]) >= 4
    /\ NumChildren(Child(genTree[1], 2)) >= 1
    /\ NumChildren(Child(genTree[1], NumChildren(genTree[1]))) = 0

\* how deep the trees are compared: deeper than every finite tree here
MaxTreeDepth == 7

RECURSIVE ShapeTo(_, _)
\* a tree written out down to the depth d
ShapeTo(t, d) ==
    IF d = 0 THEN << t.value >>
    ELSE << t.value, AsTuple([k \in 1 .. NumChildren(t) |-> ShapeTo(Child(t, k), d - 1)]) >>

RECURSIVE IsExpanded(_, _, _, _)
\* down to the depth d, the tree e is the tree t expanded with unf: the
\* children of every node are the children it has in t, expanded, and
\* then the trees unfolded with unf from the elements of unf(value)
IsExpanded(e, t, unf, d) ==
    LET n  == NumChildren(t)
        xs == ShrinkFn(unf, t.value)
    IN  /\ e.value = t.value
        /\ d > 0 =>
            /\ NumChildren(e) = n + Len(xs)
            /\ \A j \in 1 .. n : IsExpanded(Child(e, j), Child(t, j), unf, d - 1)
            /\ \A j \in 1 .. Len(xs) :
                ShapeTo(Child(e, n + j), d - 1) = ShapeTo(unfold(unf, xs[j]), d - 1)

\* C19: in the tree of g.shrinkRecursively(unf), which is the tree of g
\* expanded with unf, the children of every node are the children the node
\* has in g's tree, each expanded in the same way, followed by the trees
\* unfolded with unf from the node's value; the expansion of a tree without
\* children is the tree unfolded from its root.
\* Gen.const(10).shrinkRecursively(x => towardsIntegral(0, x)) has the
\* children 0, 5, 8, 9, and 8 has the children 0, 4, 6, 7;
\* Gen.const(10).shrink(x => towardsIntegral(0, x)).shrinkRecursively(
\* _ => [100]) has the children 0, 5, 8, 9, 100.
C19_Expand ==
    (subject.op = "shrinkRecursively" /\ genTree # << >>) =>
        LET g == GenRun(subject.gens[1], genCall.sz, genCall.seed, genCall.i)
        IN  /\ IsExpanded(genTree[1], g, subject.f, MaxTreeDepth)
            /\ NumChildren(g) = 0 =>
                ShapeTo(genTree[1], MaxTreeDepth)
                    = ShapeTo(unfold(subject.f, g.value), MaxTreeDepth)
            /\ (subject.gens[1] = GenConst(10) /\ subject.f = towards0) =>
                /\ Values(Children(genTree[1])) = << 0, 5, 8, 9 >>
                /\ Values(Children(Child(genTree[1], 3))) = << 0, 4, 6, 7 >>
            /\ subject.gens[1] = GenShrink(GenConst(10), towards0) =>
                Values(Children(genTree[1])) = << 0, 5, 8, 9, 100 >>

\* nat.shrinkRecursively(x => towardsIntegral(0, x)) was run and drew 3 or
\* more: the second child is a child of nat's tree with children of its
\* own, and has them twice after the expansion
C19_Witness ==
    /\ subject.op = "shrinkRecursively"
    /\ subject.gens[1] = nat
    /\ subject.f = towards0
    /\ genTree # << >>
    /\ genTree[1].value >= 3
    /\ NumChildren(genTree[1]) >= 4
    /\ NumChildren(Child(genTree[1], 2)) >= 4

(***************************************************************************)
(* Claims about trees                                                      *)
(***************************************************************************)
RECURSIVE PathsOf(_)
\* the paths of the nodes of a finite tree
PathsOf(t) ==
    {<< >>} \cup UNION { { << k >> \o p : p \in PathsOf(Child(t, k)) } :
                            k \in 1 .. NumChildren(t) }

RECURSIVE NodeAt(_, _)
NodeAt(t, path) == IF path = << >> THEN t ELSE NodeAt(Child(t, Head(path)), Tail(path))

\* p comes before q in pre-order: p is an ancestor of q, or where the two
\* paths part p takes the earlier child
PreOrderBefore(p, q) ==
    /\ p # q
    /\ \E n \in 0 .. Min(Len(p), Len(q)) :
          /\ SubSeq(p, 1, n) = SubSeq(q, 1, n)
          /\ \/ n = Len(p)
             \/ n < Len(p) /\ n < Len(q) /\ p[n + 1] < q[n + 1]

\* p comes before q in level order: p is less deep, or as deep and to the
\* left
LevelOrderBefore(p, q) ==
    \/ Len(p) < Len(q)
    \/ Len(p) = Len(q) /\ PreOrderBefore(p, q)

\* C20: an iteration of a tree that ran to its end has yielded the value of
\* every node exactly once; iterating the tree yields them in pre-order
\* (the root, then for every child in order all of its depth-first
\* sequence), breadthFirst() in level order (the root, then the nodes of
\* depth 1 in order, then those of depth 2, ...).  Tree.unfold(n => (n > 2
\* ? [] : [n + 1, n + 2]), 0) gives 0, 1, 2, 3, 4, 3, 2, 3, 4 depth-first
\* and 0, 1, 2, 2, 3, 3, 4, 3, 4 breadth-first.
C20_Traversals ==
    walk.pc = "done" =>
        LET t == genTree[1]
            n == Len(walk.out)
        IN  /\ { walk.paths[j] : j \in 1 .. n } = PathsOf(t)
            /\ \A j, k \in 1 .. n : j # k => walk.paths[j] # walk.paths[k]
            /\ \A j \in 1 .. n : walk.out[j] = NodeAt(t, walk.paths[j]).value
            /\ walk.mode = "depthFirst" =>
                /\ \A j, k \in 1 .. n :
                      j < k => PreOrderBefore(walk.paths[j], walk.paths[k])
                /\ walk.out = depthFirst(t)
                /\ t.kids = "unfold" /\ t.c = MkFn("upTo", 2) =>
                      walk.out = << 0, 1, 2, 3, 4, 3, 2, 3, 4 >>
            /\ walk.mode = "breadthFirst" =>
                /\ \A j, k \in 1 .. n :
                      j < k => LevelOrderBefore(walk.paths[j], walk.paths[k])
                /\ walk.out = breadthFirst(t)
                /\ t.kids = "unfold" /\ t.c = MkFn("upTo", 2) =>
                      walk.out = << 0, 1, 2, 2, 3, 3, 4, 3, 4 >>

\* breadthFirst() ran to its end on the tree unfolded from 0, in which the
\* level order differs from the pre-order
C20_Witness ==
    /\ walk.pc = "done"
    /\ walk.mode = "breadthFirst"
    /\ genTree[1].kids = "unfold"
    /\ genTree[1].c = MkFn("upTo", 2)
    /\ genTree[1].value = 0
    /\ walk.out = << 0, 1, 2, 2, 3, 3, 4, 3, 4 >>
    /\ walk.out # depthFirst(genTree[1])

\* C21: breadthFirst() on a tree whose root has children without end
\* yields the root and then, for every k (here up to the number of values
\* taken), the value of the k-th child: every next() returns, none waits
\* for the whole level.
C21_Progress ==
    \A k \in 0 .. MaxWalk - 1 :
        (walk.pc = "run" /\ walk.mode = "breadthFirst" /\ EndlessChildren(genTree[1]))
            ~> /\ walk.pc = "run"
               /\ EndlessChildren(genTree[1])
               /\ Len(walk.out) > k
               /\ walk.out[1] = genTree[1].value
               /\ k >= 1 => walk.out[k + 1] = Child(genTree[1], k).value

\* breadthFirst() on new Tree(0, Seq.enumFrom(1).map(Tree.singleton)) has
\* yielded 0, 1, 2, 3, 4, with the children yielded before the last pushed
\* on the queue
C21_Witness ==
    /\ walk.pc = "run"
    /\ walk.mode = "breadthFirst"
    /\ genTree[1].kids = "enumLeaves"
    /\ Len(walk.out) >= 5
    /\ SubSeq(walk.out, 1, 5) = << 0, 1, 2, 3, 4 >>
    /\ Len(walk.queue) >= 3

(***************************************************************************)
(* Claims about the functions of shrink.ts and prng.ts                     *)
(***************************************************************************)
\* C22: towardsIntegral(d, x) is empty when d = x; otherwise it starts with
\* d, does not contain x, every element is between d (inclusive) and x
\* (exclusive), and the elements move strictly towards x.
\* towardsIntegral(0, 10) is 0, 5, 8, 9 and towardsIntegral(-50, -26) is
\* -50, -38, -32, -29, -27.
C22_TowardsIntegral ==
    (subject.op = "towardsIntegral" /\ made # << >>) =>
        LET d == subject.d
            x == subject.x
            s == made[1]
        IN  /\ d = x => s = << >>
            /\ d # x =>
                /\ Len(s) >= 1
                /\ s[1] = d
                /\ \A k \in 1 .. Len(s) :
                      IF d < x THEN d <= s[k] /\ s[k] < x
                               ELSE x < s[k] /\ s[k] <= d
                /\ \A k \in 1 .. Len(s) - 1 :
                      IF d < x THEN s[k] < s[k + 1] ELSE s[k] > s[k + 1]
            /\ (d = 0 /\ x = 10) => s = << 0, 5, 8, 9 >>
            /\ (d = -50 /\ x = -26) => s = << -50, -38, -32, -29, -27 >>

\* towardsIntegral(-50, -26) was called
C22_Witness ==
    /\ subject.op = "towardsIntegral"
    /\ subject.d = -50
    /\ subject.x = -26
    /\ made = << << -50, -38, -32, -29, -27 >> >>

\* C23: nextInt(s, {minBound: lo, maxBound: hi}) is an integer between lo
\* and hi, both included; each of the two is the result for some seed (lo
\* when the scramble is 0, hi when it is 0xffffffff, where the floor is
\* hi + 1 and the result is cut to hi).
C23_NextIntRange ==
    (subject.op = "nextInt" /\ made # << >>) =>
        /\ made[1] \in subject.lo .. subject.hi
        /\ \E s \in PrngSeeds : nextInt(s, subject.lo, subject.hi) = subject.lo
        /\ \E s \in PrngSeeds : nextInt(s, subject.lo, subject.hi) = subject.hi
        /\ xoshiro128ssOut(subject.s) = << 0, 0 >> => made[1] = subject.lo
        /\ xoshiro128ssOut(subject.s) = << H16 - 1, H16 - 1 >> => made[1] = subject.hi

\* nextInt on 1..3 with a seed whose scramble is 0xffffffff: the floor is
\* 4, the result 3
C23_Witness ==
    /\ subject.op = "nextInt"
    /\ xoshiro128ssOut(subject.s) = << H16 - 1, H16 - 1 >>
    /\ subject.lo = 1
    /\ subject.hi = 3
    /\ made = << 3 >>

\* C24: the two seed states split(s) returns, step(s) and jump(s), differ
\* from each other, and each differs from s.
C24_SplitDistinct ==
    (subject.op = "split" /\ made # << >>) =>
        /\ made[1][1] # made[1][2]
        /\ made[1][1] # subject.s
        /\ made[1][2] # subject.s

\* what holds instead: the three differ unless s is [0, a, a, a]
SplitDistinctOutsideKernel ==
    (subject.op = "split" /\ made # << >>) =>
        \/ /\ subject.s[1] = Zero32
           /\ subject.s[2] = subject.s[3]
           /\ subject.s[3] = subject.s[4]
        \/ /\ made[1][1] # made[1][2]
           /\ made[1][1] # subject.s
           /\ made[1][2] # subject.s

\* split([0, 1, 1, 1]) returned [0, 0, 0, 0] and [0, 1, 1, 1]
C24_Witness ==
    /\ subject.op = "split"
    /\ subject.s = SeedOf(0, 1, 1, 1)
    /\ made = << << SeedOf(0, 0, 0, 0), SeedOf(0, 1, 1, 1) >> >>

(***************************************************************************)
(* Claims about the search of shrink                                       *)
(***************************************************************************)
\* the values the other arguments are held at while argument i is searched:
\* the accepted ones before i, the original roots after it
Frozen(i) ==
    [j \in 1 .. Len(origArgs) |->
        IF j < i THEN sh.smallestFailingArgs[j] ELSE OrigRoots[j]]

\* the property fails with argument i at the value of node t
FailsAt(i, t) == ~check(prop, [Frozen(i) EXCEPT ![i] = t.value]).ok

\* the node a greedy walk of argument i's tree is at after `fuel`
\* evaluations: from child k of t on, the first child that fails is entered
RECURSIVE GreedyNode(_, _, _, _)
GreedyNode(i, t, k, fuel) ==
    IF fuel = 0 \/ ~HasChild(t, k) THEN t
    ELSE IF FailsAt(i, Child(t, k)) THEN GreedyNode(i, Child(t, k), 1, fuel - 1)
    ELSE GreedyNode(i, t, k + 1, fuel - 1)

\* the candidate of frame f of the stack passes
FramePasses(f, k) ==
    check(prop, Values(argsTreeCopy([stack[f] EXCEPT !.k = k]))).ok

\* the evaluations the frames of the stack stand for
RECURSIVE FrameEvals(_)
FrameEvals(f) ==
    IF f = 0 THEN 0
    ELSE FrameEvals(f - 1) + (IF f = Len(stack) THEN stack[f].k - 1 ELSE stack[f].k)

\* C25: the search of argument i is a greedy walk of its tree.  In every
\* frame the children before the current one were evaluated and passed,
\* every frame below the top stands at a child that failed and the frame
\* above it searches that child, and nothing else was evaluated; the value
\* accepted is the node the greedy walk reaches with the evaluations made;
\* with no budget exhausted no child of that node fails, and an argument
\* none of whose root's children fails keeps its original value.
C25_GreedyPath ==
    /\ (pc = "single" /\ ret = << >> /\ stack # << >>) =>
        /\ \A f \in 1 .. Len(stack) :
            /\ stack[f].i = sh.i
            /\ \A k \in 1 .. stack[f].k - 1 : FramePasses(f, k)
            /\ f < Len(stack) =>
                /\ ~FramePasses(f, stack[f].k)
                /\ stack[f + 1].argsTree[sh.i]
                        = Child(stack[f].argsTree[sh.i], stack[f].k)
        /\ stack[1].argsTree[sh.i] = origArgs[sh.i]
        /\ Values(stack[1].argsTree) = Frozen(sh.i)
        /\ evalsOf[sh.i] = FrameEvals(Len(stack))
    /\ pc = "done" =>
        \A i \in 1 .. Len(origArgs) :
            LET end == GreedyNode(i, origArgs[i], 1, evalsOf[i])
            IN  /\ sh.smallestFailingArgs[i] = end.value
                /\ ~cut => \A k \in 1 .. NumChildren(end) : ~FailsAt(i, Child(end, k))
                /\ (/\ ~EndlessChildren(origArgs[i])
                    /\ \A k \in 1 .. NumChildren(origArgs[i]) :
                            ~FailsAt(i, Child(origArgs[i], k)))
                        => sh.smallestFailingArgs[i] = OrigRoots[i]

\* a value two levels down was accepted after children that passed, with
\* no budget exhausted
C25_Witness ==
    /\ pc = "done"
    /\ ~cut
    /\ Len(origArgs) = 2
    /\ \E i \in 1 .. 2 :
        /\ evalsOf[i] >= 4
        /\ \E k \in 2 .. 4 :
            /\ HasChild(origArgs[i], k)
            /\ FailsAt(i, Child(origArgs[i], k))
            /\ \A j \in 1 .. k - 1 : ~FailsAt(i, Child(origArgs[i], j))
            /\ sh.smallestFailingArgs[i] # Child(origArgs[i], k).value
            /\ sh.smallestFailingArgs[i] # OrigRoots[i]

\* while the candidates of argument sh.i are evaluated, the tuple of every
\* frame holds the accepted values before sh.i and the original roots after
\* it; the arguments after sh.i are untouched
C26_Held ==
    sh # << >> =>
        /\ sh.i >= 1
        /\ \A j \in 1 .. Len(origArgs) :
            j > sh.i => /\ evalsOf[j] = 0
                        /\ sh.smallestFailingArgs[j] = OrigRoots[j]
                        /\ args[j] = origArgs[j]
        /\ pc = "single" =>
            \A f \in 1 .. Len(stack) :
                /\ stack[f].i = sh.i
                /\ HasChild(stack[f].argsTree[sh.i], stack[f].k) =>
                    \A j \in 1 .. Len(origArgs) :
                        /\ j < sh.i => Values(argsTreeCopy(stack[f]))[j]
                                            = sh.smallestFailingArgs[j]
                        /\ j > sh.i => Values(argsTreeCopy(stack[f]))[j]
                                            = OrigRoots[j]
        /\ (pc = "done" /\ BudgetSpent(sh.shrinks, sh.maxShrinks)) =>
            \A j \in 1 .. Len(origArgs) :
                j > sh.i => sh.smallestFailingArgs[j] = OrigRoots[j]

\* a step of a shrink call never goes back to an earlier argument, evaluates
\* candidates of the current argument only, and leaves the values accepted
\* for the earlier arguments alone
C26_Step ==
    (sh # << >> /\ sh' # << >> /\ pc # "done") =>
        /\ sh'.i >= sh.i
        /\ \A j \in 1 .. Len(origArgs) :
            /\ j < sh.i => sh'.smallestFailingArgs[j] = sh.smallestFailingArgs[j]
            /\ j # sh.i => evalsOf'[j] = evalsOf[j]

\* C26: shrink takes the arguments in index order and never returns to an
\* earlier one; while the candidates of argument i are evaluated the
\* arguments before i are held at their accepted values and those after i at
\* their original roots; once maxShrinks is reached the remaining arguments
\* keep their original values.
C26_IndexOrder == []C26_Held /\ [][C26_Step]_vars

\* the second argument was searched with the first held at a smaller value
\* than its root, and the total budget ended the call before the third
C26_Witness ==
    /\ pc = "done"
    /\ Len(origArgs) = 3
    /\ sh.i = 2
    /\ sh.smallestFailingArgs[1] # OrigRoots[1]
    /\ evalsOf[2] >= 1
    /\ BudgetSpent(sh.shrinks, sh.maxShrinks)

\* the count returned is strictly below the total budget
BelowTotal == ~Ge(Fin(sh.shrinks), TotalBudget)

\* the count returned is strictly below n times the budget of an argument
BelowPerArgumentTimes(n) ==
    IF PerArgumentBudget.k = "fin" THEN 2 * sh.shrinks < n * PerArgumentBudget.t2
    ELSE n > 0

\* no search was ended by a budget, and no child of an accepted node fails
SearchCompleted ==
    /\ ~cut
    /\ \A i \in 1 .. Len(origArgs) :
        LET end == GreedyNode(i, origArgs[i], 1, evalsOf[i])
        IN  \A k \in 1 .. NumChildren(end) : ~FailsAt(i, Child(end, k))

\* C27 as stated: a count strictly below maxShrinks and below
\* maxShrinksPerArgument times the number of arguments means that the search
\* of no argument was cut short by a budget.
C27_BelowRequested ==
    (pc = "done" /\ BelowTotal /\ BelowPerArgumentTimes(Len(origArgs)))
        => SearchCompleted

\* C27: a count strictly below maxShrinks and strictly below
\* maxShrinksPerArgument itself means that the search of no argument was cut
\* short by a budget: every search ended because no candidate was left, and
\* no child of an accepted node fails.
C27_BelowEveryBudget ==
    (pc = "done" /\ BelowTotal /\ BelowPerArgumentTimes(1)) => SearchCompleted

\* two arguments were searched to the end, under finite budgets that the
\* count stayed below
C27_Witness ==
    /\ pc = "done"
    /\ Len(origArgs) >= 2
    /\ TotalBudget.k = "fin"
    /\ PerArgumentBudget.k = "fin"
    /\ BelowTotal
    /\ BelowPerArgumentTimes(1)
    /\ \A i \in 1 .. Len(origArgs) : evalsOf[i] >= 2
    /\ SearchCompleted

\* the first of two searches was ended by maxShrinksPerArgument with a
\* failing candidate left, and the count is below twice that budget
C27_CutBelowRequested ==
    /\ pc = "done"
    /\ Len(origArgs) = 2
    /\ BelowTotal
    /\ BelowPerArgumentTimes(2)
    /\ PerArgumentBudget.k = "fin"
    /\ 2 * evalsOf[1] = PerArgumentBudget.t2
    /\ cut
    /\ LET end == GreedyNode(1, origArgs[1], 1, evalsOf[1])
       IN  FailsAt(1, Child(end, 1))

\* C28: shrink leaves the array it was handed as it was: when a call
\* returns, args holds the trees it held when the call was made, and a
\* second call on the same array returns what the first returned.
C28_NoSideEffects ==
    /\ pc = "done" => args = origArgs
    /\ Len(returned) >= 2 => returned[2] = returned[1]

\* shrink(_ => false, [tree]) returned { shrinks: 1, smallestFailingArgs:
\* [0] } and left Tree.singleton(0) in the array; the second call on the
\* array evaluated nothing
C28_Witness ==
    /\ pc = "done"
    /\ prop = MkProp("const", 0, Returns(Bool(FALSE)))
    /\ shrinkOpts = ShrinkOpts(Absent, Absent)
    /\ returned = << ShrinkResult(1, << 0 >>), ShrinkResult(0, << 0 >>) >>
    /\ args = << singleton(0) >>

(***************************************************************************)
(* Claims about the effects of expand                                      *)
(***************************************************************************)
\* C29: calling tree.expand(unf) applies unf to nothing: after the call, and
\* before the children of the tree it returned are iterated, unf has not
\* been applied.
C29_ExpandEffectFree ==
    (subject.op = "expand" /\ made # << >> /\ walk.pc = "none") => applied = << >>

\* tree1.expand(unf) has returned, nothing was iterated, and unf has been
\* applied to the root value
C29_Witness ==
    /\ subject = [op |-> "expand", n |-> 3, unf |-> MkFn("upTo", 2)]
    /\ made = << expand(tree1, MkFn("upTo", 2)) >>
    /\ walk.pc = "none"
    /\ applied = << tree1.value >>

(***************************************************************************)
(* Claims about the tree of suchThatMaybe                                  *)
(***************************************************************************)
RECURSIVE AllSatisfy(_, _, _)
\* down to the depth d, every value of the tree t is undefined or a value
\* that satisfies pred
AllSatisfy(t, pred, d) ==
    /\ t.value = << >> \/ Pred(pred, t.value[1])
    /\ d > 0 => \A k \in 1 .. NumChildren(t) : AllSatisfy(Child(t, k), pred, d - 1)

\* the tree g returned for the first attempt of the call, at the size sz
FirstAttempt ==
    GenRun(GenResize(subject.gens[1], genCall.sz), genCall.sz,
           split(genCall.seed)[1], genCall.i)

\* C30: every value of the tree g.suchThatMaybe(pred) returns, the root and
\* its descendants, is undefined or satisfies pred; where a shrink candidate
\* of g violates pred, the tree holds in its place what the attempts at the
\* next sizes give.
C30_TreeSatisfies ==
    (subject.op = "suchThatMaybe" /\ genTree # << >>) =>
        /\ AllSatisfy(genTree[1], subject.f, MaxPredDepth)
        /\ Pred(subject.f, FirstAttempt.value) =>
            \A k \in 1 .. NumChildren(FirstAttempt) :
                /\ HasChild(genTree[1], k)
                /\ Pred(subject.f, Child(FirstAttempt, k).value) =>
                        Child(genTree[1], k).value = << Child(FirstAttempt, k).value >>
                /\ ~Pred(subject.f, Child(FirstAttempt, k).value) =>
                        Child(genTree[1], k).value =
                            GenRun(tryPred(subject.gens[1], subject.f,
                                           genCall.sz + 1, 2 * genCall.sz),
                                   genCall.sz, split(genCall.seed)[2], genCall.i).value

\* nat.suchThatMaybe(x => x % 2 === 0) found 2 in the first attempt; 2 has
\* the shrink candidate 1 in the tree of nat, and the tree returned has in
\* its place an even value, found at a later size, with children of its own
C30_Witness ==
    /\ subject.op = "suchThatMaybe"
    /\ subject.gens[1] = nat
    /\ subject.f = MkFn("even", 0)
    /\ genTree # << >>
    /\ FirstAttempt.value = 2
    /\ genTree[1].value = << 2 >>
    /\ Child(FirstAttempt, 2).value = 1
    /\ Child(genTree[1], 2).value # << >>
    /\ Child(genTree[1], 2).value[1] % 2 = 0
    /\ NumChildren(Child(genTree[1], 2)) > 0

====
